---- MODULE Spec2Model ----
(***************************************************************************)
(* Model of in_toto/runlib.py: the link-recording entry points             *)
(* in_toto_run, in_toto_record_start and in_toto_record_stop, the files    *)
(* they read and write, and the credentials they sign with; the supervised *)
(* execution of the command (execute_link); and the recording of artifacts *)
(* (record_artifacts_as_dict).                                             *)
(*                                                                         *)
(* Every entry point is an operator from (arguments, disk) to an outcome   *)
(* (exception or "ok", the calls it made in order, the disk afterwards);   *)
(* the action of the same name applies the outcome to the state.           *)
(***************************************************************************)
EXTENDS Integers, Sequences, FiniteSets, TLC

VARIABLES
  unfinished,   \* preliminary link files in the working directory, by name
  links,        \* final link files, by (directory, name)
  tree,         \* content hash of the artifact on disk
  last,         \* the last call: entry point, arguments and what it did
  removed,      \* names of the preliminary files removed by a record_stop
  calls,        \* number of calls made so far
  exec,         \* the execute_link call in progress: parent, child, buffers
  scan,         \* the record_artifacts_as_dict call made last
  stopping      \* the in_toto_record_stop call in progress, made in steps

vars ==
  <<unfinished, links, tree, last, removed, calls, exec, scan, stopping>>

(***************************************************************************)
(* Bounds of the model.                                                    *)
(***************************************************************************)
\* Calls in a run of the start/stop protocol, and in a run that tries the
\* argument checks.
MaxCalls == 3
MaxArgCalls == 2

(***************************************************************************)
(* Values.                                                                 *)
(***************************************************************************)
\* Python's None, the empty list and the empty dict: all falsy.
None == <<>>
EmptyDict == <<>>

\* link.FILENAME_FORMAT and UNFINISHED_FILENAME_FORMAT print "{keyid:.8}".
KeyidPrefixLen == 8

Keyid(x, y) == <<x, 0, 0, 0, 0, 0, 0, 0, y>>

\* Private keys a caller can pass as signing_key, named by their keyid. The
\* ids of the first two differ only after the printed prefix.
LocalKeys == {Keyid(1, 1), Keyid(1, 2), Keyid(4, 1)}

\* Keys of the gpg keyring; gpg signs with DefaultGpgKey when no id is given.
GpgKeys == {Keyid(2, 1), Keyid(3, 1)}
DefaultGpgKey == Keyid(2, 1)

AllKeys == LocalKeys \cup GpgKeys

KeyidPrefix(keyid) == SubSeq(keyid, 1, KeyidPrefixLen)

Prefixes == {KeyidPrefix(k) : k \in AllKeys}

Steps == {"s1", "s2"}

\* Where a final link goes: the working directory or metadata_directory.
\* Directories are paths, written as the sequence of their components.
Cwd == <<".">>
MetadataDirs == {<<"md">>}
Dirs == {Cwd} \cup MetadataDirs

Contents == {1, 2}
ArtifactLists == {<<>>, <<"a">>}
Commands == {<<>>, <<"edit">>}

NoFile == <<>>

UnfinishedNames == Steps \X Prefixes
LinkNames == Dirs \X Steps \X Prefixes

\* UNFINISHED_FILENAME_FORMAT.format(step_name=..., keyid=...)
UNFINISHED_FILENAME_FORMAT(step_name, keyid) == <<step_name, KeyidPrefix(keyid)>>

\* FILENAME_FORMAT.format(step_name=..., keyid=...), joined to the directory
FILENAME_FORMAT(dir, step_name, keyid) == <<dir, step_name, KeyidPrefix(keyid)>>

\* glob.glob(UNFINISHED_FILENAME_FORMAT_GLOB.format(step_name=..., pattern="*"))
unfinished_fn_list(step_name, u) ==
  {fn \in UnfinishedNames : fn[1] = step_name /\ u[fn] # NoFile}

(***************************************************************************)
(* Artifacts and the command.                                              *)
(***************************************************************************)
\* record_artifacts_as_dict on a tree that holds the one file "a": the paths
\* of the list that exist, each with its hash; {} for the empty list.
RecordArtifacts(artifacts, t) ==
  [p \in {artifacts[i] : i \in DOMAIN artifacts} |-> t]

\* execute_link: the by-products of a command that exits with 0.
execute_link(link_cmd_args, record_streams) ==
  <<IF record_streams THEN "out" ELSE "", "", 0>>

\* What running the command does to the artifact: "edit" rewrites it.
CommandEffect(link_cmd_args, t) ==
  IF link_cmd_args = <<"edit">> THEN (IF t = 1 THEN 2 ELSE 1) ELSE t

(***************************************************************************)
(* Metadata and signers.                                                   *)
(***************************************************************************)
Link(name, materials, products, command, byproducts, environment) ==
  [name |-> name, materials |-> materials, products |-> products,
   command |-> command, byproducts |-> byproducts,
   environment |-> environment]

Metablock(signed) == [type |-> "Metablock", signed |-> signed, signatures |-> <<>>]
Envelope(signed) == [type |-> "Envelope", signed |-> signed, signatures |-> <<>>]

\* Signers, as <<class, keyid>>; keyid None makes gpg use its default key.
NoSigner == <<>>
SSlibSigner(signing_key) == <<"SSlibSigner", signing_key>>
GPGSigner(keyid) == <<"GPGSigner", keyid>>

\* The key id a signer's signature carries.
SignatureKeyid(signer) ==
  IF signer[1] = "SSlibSigner" THEN signer[2]
  ELSE IF signer[2] = None THEN DefaultGpgKey
  ELSE signer[2]

\* Metadata.create_signature: append the signer's signature.
create_signature(link_metadata, signer) ==
  [link_metadata EXCEPT !.signatures = Append(@, SignatureKeyid(signer))]

\* Metadata.verify_signature: there is a signature made by that key.
verify_signature(link_metadata, verification_key) ==
  \E i \in DOMAIN link_metadata.signatures :
    link_metadata.signatures[i] = verification_key

\* securesystemslib.gpg.functions.export_pubkey: the key of that id.
export_pubkey(keyid) == keyid

\* Environment of the link: the working directory when asked for.
Environment(record_environment) ==
  IF record_environment THEN <<"workdir">> ELSE EmptyDict

(***************************************************************************)
(* Outcomes of a call.                                                     *)
(***************************************************************************)
\* result: "ok" or the exception; trace: the calls made, in order; signers:
\* the signers invoked; ret: the returned metadata, if any.
Outcome(result, trace, signers, ret, u, l, t, rm) ==
  [result |-> result, trace |-> trace, signers |-> signers, ret |-> ret,
   unfinished |-> u, links |-> l, tree |-> t, removed |-> rm]

Raise(exception, trace, signers, u, l, t) ==
  Outcome(exception, trace, signers, <<>>, u, l, t, {})

Ok(trace, signers, ret, u, l, t, rm) ==
  Outcome("ok", trace, signers, ret, u, l, t, rm)

\* Keys gpg can export and sign with; any other id is unknown to it.
GpgKnows(keyid) == keyid \in GpgKeys

(***************************************************************************)
(* Arguments.  mishap names the one thing that goes wrong in a call, if    *)
(* any: a malformed argument ("bad_...") or a failing collaborator         *)
(* ("fail_...").                                                           *)
(***************************************************************************)
NoCredential(a) ==
  a.signing_key = None /\ a.gpg_keyid = None /\ ~a.gpg_use_default

\* The checks of the key arguments, shared by the three entry points:
\* _check_match_signing_key and KEYID_SCHEMA.check_match.
BadKeyArgument(a) ==
  \/ a.signing_key # None /\ a.mishap = "bad_signing_key"
  \/ a.gpg_keyid # None /\ a.mishap = "bad_gpg_keyid"

\* NAMES_SCHEMA.check_match(exclude_patterns), PATH_SCHEMA.check_match(base_path)
BadScanArgument(a) ==
  a.mishap \in {"bad_exclude_patterns", "bad_base_path"}

\* PATH_SCHEMA.check_match(metadata_directory)
BadMetadataDirectory(a) ==
  a.metadata_directory # None /\ a.mishap = "bad_metadata_directory"

\* Mutant: metadata_directory is ignored.
TargetDir_Cwd(a) == Cwd

\* The directory the final link is written to.
TargetDir(a) ==
  IF a.metadata_directory # None THEN a.metadata_directory ELSE Cwd

\* Mutant: the gpg key id is tried before the private key.
ChooseSigner_GpgFirst(a) ==
  IF a.gpg_keyid # None THEN GPGSigner(a.gpg_keyid)
  ELSE IF a.signing_key # None THEN SSlibSigner(a.signing_key)
  ELSE IF a.gpg_use_default THEN GPGSigner(None)
  ELSE NoSigner

\* The signer in_toto_run chooses.
ChooseSigner(a) ==
  IF a.signing_key # None THEN SSlibSigner(a.signing_key)
  ELSE IF a.gpg_keyid # None THEN GPGSigner(a.gpg_keyid)
  ELSE IF a.gpg_use_default THEN GPGSigner(None)
  ELSE NoSigner

\* create_signature raises: the signing backend fails, or gpg has no such key.
SigningFails(a, signer) ==
  \/ a.mishap = "fail_sign"
  \/ signer[1] = "GPGSigner" /\ signer[2] # None /\ ~GpgKnows(signer[2])

(***************************************************************************)
(* in_toto_run                                                             *)
(***************************************************************************)
RunSignAndDump(a, link_metadata, trace, u, l, t) ==
  LET signer == ChooseSigner(a)
  IN IF signer = NoSigner
     THEN Ok(trace, <<>>, <<link_metadata>>, u, l, t, {})
     ELSE IF SigningFails(a, signer)
     THEN Raise("CryptoError", trace \o <<"create_signature">>, <<signer>>,
                u, l, t)
     ELSE LET signed == create_signature(link_metadata, signer)
              signing_keyid == signed.signatures[Len(signed.signatures)]
              filename == FILENAME_FORMAT(TargetDir(a), a.name, signing_keyid)
              tr == trace \o <<"create_signature", "dump">>
          IN IF a.mishap = "fail_dump"
             THEN Raise("IOError", tr, <<signer>>, u, l, t)
             ELSE Ok(tr, <<signer>>, <<signed>>, u,
                     [l EXCEPT ![filename] = <<signed>>], t, {})

RunProducts(a, materials_dict, byproducts, trace, u, l, t) ==
  IF a.product_list # <<>> /\ a.mishap = "bad_product_list"
  THEN Raise("FormatError", trace, <<>>, u, l, t)
  ELSE IF a.product_list # <<>> /\ a.mishap = "fail_products"
  THEN Raise("StorageError", trace \o <<"record_products">>, <<>>, u, l, t)
  ELSE LET products_dict == RecordArtifacts(a.product_list, t)
           link == Link(a.name, materials_dict, products_dict,
                        a.link_cmd_args, byproducts,
                        Environment(a.record_environment))
           link_metadata == IF a.use_dsse THEN Envelope(link)
                            ELSE Metablock(link)
       IN RunSignAndDump(a, link_metadata, trace \o <<"record_products">>,
                         u, l, t)

\* execution is what the call of execute_link does: it raises, or returns
\* the by-products.
RunCommand(a, materials_dict, execution, trace, u, l, t) ==
  IF a.link_cmd_args # <<>>
  THEN IF a.mishap = "bad_link_cmd_args"
       THEN Raise("FormatError", trace, <<>>, u, l, t)
       ELSE IF execution.result # "ok"
       THEN Raise(execution.result, trace \o <<"execute_link">>, <<>>, u, l,
                  CommandEffect(a.link_cmd_args, t))
       ELSE RunProducts(a, materials_dict, execution.byproducts,
                        trace \o <<"execute_link">>, u, l,
                        CommandEffect(a.link_cmd_args, t))
  ELSE RunProducts(a, materials_dict, EmptyDict, trace, u, l, t)

\* Mutant: the materials are recorded after the command has run.
in_toto_run_with_MaterialsLate(a, execution, u, l, t) ==
  IF BadKeyArgument(a) \/ BadScanArgument(a) \/ BadMetadataDirectory(a)
  THEN Raise("FormatError", <<>>, <<>>, u, l, t)
  ELSE IF a.material_list # <<>> /\ a.mishap = "fail_materials"
  THEN Raise("StorageError", <<"record_materials">>, <<>>, u, l, t)
  ELSE RunCommand(a, RecordArtifacts(a.material_list,
                                     CommandEffect(a.link_cmd_args, t)),
                  execution, <<"record_materials">>, u, l, t)

\* in_toto_run, given what its call of execute_link does.
in_toto_run_with(a, execution, u, l, t) ==
  IF BadKeyArgument(a) \/ BadScanArgument(a) \/ BadMetadataDirectory(a)
  THEN Raise("FormatError", <<>>, <<>>, u, l, t)
  ELSE IF a.material_list # <<>> /\ a.mishap = "fail_materials"
  THEN Raise("StorageError", <<"record_materials">>, <<>>, u, l, t)
  ELSE RunCommand(a, RecordArtifacts(a.material_list, t), execution,
                  <<"record_materials">>, u, l, t)

\* The execution seen from the protocol: it times out on the mishap
\* "fail_execute", and else returns the by-products of a command that
\* exits with 0.
Execution(a) ==
  IF a.mishap = "fail_execute"
  THEN [result |-> "TimeoutExpired", byproducts |-> EmptyDict]
  ELSE [result |-> "ok",
        byproducts |-> execute_link(a.link_cmd_args, a.record_streams)]

in_toto_run(a, u, l, t) == in_toto_run_with(a, Execution(a), u, l, t)

(***************************************************************************)
(* in_toto_record_start                                                    *)
(***************************************************************************)
\* Mutant: a preliminary file that exists is kept, and the new one is
\* written beside it under another name.
StartSignAndDump_Beside(a, link_metadata, trace, u, l, t) ==
  LET signer == IF a.signing_key # None THEN SSlibSigner(a.signing_key)
                ELSE IF a.gpg_keyid # None THEN GPGSigner(a.gpg_keyid)
                ELSE GPGSigner(None)
  IN IF SigningFails(a, signer)
     THEN Raise("CryptoError", trace \o <<"create_signature">>, <<signer>>,
                u, l, t)
     ELSE LET signed == create_signature(link_metadata, signer)
              signing_keyid == signed.signatures[Len(signed.signatures)]
              unfinished_fn ==
                UNFINISHED_FILENAME_FORMAT(a.step_name, signing_keyid)
              beside == UNFINISHED_FILENAME_FORMAT(a.step_name, Keyid(3, 1))
              fn == IF u[unfinished_fn] # NoFile THEN beside
                    ELSE unfinished_fn
              tr == trace \o <<"create_signature", "dump">>
          IN IF a.mishap = "fail_dump"
             THEN Raise("IOError", tr, <<signer>>, u, l, t)
             ELSE Ok(tr, <<signer>>, <<>>,
                     [u EXCEPT ![fn] = <<signed>>], l, t, {})

StartSignAndDump(a, link_metadata, trace, u, l, t) ==
  LET signer == IF a.signing_key # None THEN SSlibSigner(a.signing_key)
                ELSE IF a.gpg_keyid # None THEN GPGSigner(a.gpg_keyid)
                ELSE GPGSigner(None)
  IN IF SigningFails(a, signer)
     THEN Raise("CryptoError", trace \o <<"create_signature">>, <<signer>>,
                u, l, t)
     ELSE LET signed == create_signature(link_metadata, signer)
              signing_keyid == signed.signatures[Len(signed.signatures)]
              unfinished_fn ==
                UNFINISHED_FILENAME_FORMAT(a.step_name, signing_keyid)
              tr == trace \o <<"create_signature", "dump">>
          IN IF a.mishap = "fail_dump"
             THEN Raise("IOError", tr, <<signer>>, u, l, t)
             ELSE Ok(tr, <<signer>>, <<>>,
                     [u EXCEPT ![unfinished_fn] = <<signed>>], l, t, {})

\* Mutant: the check for a credential is missing.
in_toto_record_start_NoCheck(a, u, l, t) ==
  IF BadKeyArgument(a) \/ BadScanArgument(a)
  THEN Raise("FormatError", <<>>, <<>>, u, l, t)
  ELSE IF a.material_list # <<>> /\ a.mishap = "fail_materials"
  THEN Raise("StorageError", <<"record_materials">>, <<>>, u, l, t)
  ELSE LET materials_dict == RecordArtifacts(a.material_list, t)
           link == Link(a.step_name, materials_dict, EmptyDict, <<>>,
                        EmptyDict, Environment(a.record_environment))
           link_metadata == IF a.use_dsse THEN Envelope(link)
                            ELSE Metablock(link)
       IN StartSignAndDump(a, link_metadata, <<"record_materials">>, u, l, t)

in_toto_record_start(a, u, l, t) ==
  IF NoCredential(a)
  THEN Raise("ValueError", <<>>, <<>>, u, l, t)
  ELSE IF BadKeyArgument(a) \/ BadScanArgument(a)
  THEN Raise("FormatError", <<>>, <<>>, u, l, t)
  ELSE IF a.material_list # <<>> /\ a.mishap = "fail_materials"
  THEN Raise("StorageError", <<"record_materials">>, <<>>, u, l, t)
  ELSE LET materials_dict == RecordArtifacts(a.material_list, t)
           link == Link(a.step_name, materials_dict, EmptyDict, <<>>,
                        EmptyDict, Environment(a.record_environment))
           link_metadata == IF a.use_dsse THEN Envelope(link)
                            ELSE Metablock(link)
       IN StartSignAndDump(a, link_metadata, <<"record_materials">>, u, l, t)

(***************************************************************************)
(* in_toto_record_stop                                                     *)
(***************************************************************************)
\* Metadata.load: the metadata stored in the file, which must exist.
CanLoad(fn, u) == u[fn] # NoFile
Metadata_load(fn, u) == u[fn][1]

\* Mutant: the preliminary file is removed before the final one is written.
StopSignAndDump_RemoveFirst(a, unfinished_fn, link_metadata, keyid, trace, u, l, t) ==
  LET signer == IF a.signing_key # None THEN SSlibSigner(a.signing_key)
                ELSE GPGSigner(keyid)
  IN IF SigningFails(a, signer)
     THEN Raise("CryptoError", trace \o <<"create_signature">>, <<signer>>,
                u, l, t)
     ELSE LET signed == create_signature(link_metadata, signer)
              fn == FILENAME_FORMAT(TargetDir(a), a.step_name, keyid)
              tr == trace \o <<"create_signature", "remove", "dump">>
              gone == [u EXCEPT ![unfinished_fn] = NoFile]
          IN IF a.mishap = "fail_dump"
             THEN Outcome("IOError", tr, <<signer>>, <<>>, gone, l, t,
                          {unfinished_fn})
             ELSE Ok(tr, <<signer>>, <<>>, gone,
                     [l EXCEPT ![fn] = <<signed>>], t, {unfinished_fn})

\* Mutant: without a key id passed, gpg signs with its default key.
StopSignAndDump_DefaultSigner(a, unfinished_fn, link_metadata, keyid, trace, u, l, t) ==
  LET signer == IF a.signing_key # None THEN SSlibSigner(a.signing_key)
                ELSE IF a.gpg_keyid # None THEN GPGSigner(keyid)
                ELSE GPGSigner(None)
  IN IF SigningFails(a, signer)
     THEN Raise("CryptoError", trace \o <<"create_signature">>, <<signer>>,
                u, l, t)
     ELSE LET signed == create_signature(link_metadata, signer)
              fn == FILENAME_FORMAT(TargetDir(a), a.step_name, keyid)
              tr == trace \o <<"create_signature", "dump">>
              dumped == [l EXCEPT ![fn] = <<signed>>]
          IN IF a.mishap = "fail_dump"
             THEN Raise("IOError", tr, <<signer>>, u, l, t)
             ELSE IF a.mishap = "fail_remove"
             THEN Raise("OSError", tr \o <<"remove">>, <<signer>>,
                        u, dumped, t)
             ELSE Ok(tr \o <<"remove">>, <<signer>>, <<>>,
                     [u EXCEPT ![unfinished_fn] = NoFile], dumped, t,
                     {unfinished_fn})

StopSignAndDump(a, unfinished_fn, link_metadata, keyid, trace, u, l, t) ==
  LET signer == IF a.signing_key # None THEN SSlibSigner(a.signing_key)
                ELSE GPGSigner(keyid)
  IN IF SigningFails(a, signer)
     THEN Raise("CryptoError", trace \o <<"create_signature">>, <<signer>>,
                u, l, t)
     ELSE LET signed == create_signature(link_metadata, signer)
              fn == FILENAME_FORMAT(TargetDir(a), a.step_name, keyid)
              tr == trace \o <<"create_signature", "dump">>
              dumped == [l EXCEPT ![fn] = <<signed>>]
          IN IF a.mishap = "fail_dump"
             THEN Raise("IOError", tr, <<signer>>, u, l, t)
             ELSE IF a.mishap = "fail_remove"
             THEN Raise("OSError", tr \o <<"remove">>, <<signer>>,
                        u, dumped, t)
             ELSE Ok(tr \o <<"remove">>, <<signer>>, <<>>,
                     [u EXCEPT ![unfinished_fn] = NoFile], dumped, t,
                     {unfinished_fn})

\* Mutant: the products are not recorded into the link.
StopProducts_NoScan(a, unfinished_fn, link_metadata, keyid, trace, u, l, t) ==
  LET rewrapped == IF link_metadata.type = "Metablock"
                   THEN Metablock(link_metadata.signed)
                   ELSE Envelope(link_metadata.signed)
  IN StopSignAndDump(a, unfinished_fn, rewrapped, keyid, trace, u, l, t)

\* Mutant: the final link is made anew, with the products alone.
StopProducts_Fresh(a, unfinished_fn, link_metadata, keyid, trace, u, l, t) ==
  IF a.product_list # <<>> /\ a.mishap = "fail_products"
  THEN Raise("StorageError", trace \o <<"record_products">>, <<>>, u, l, t)
  ELSE LET link == Link(a.step_name, EmptyDict,
                        RecordArtifacts(a.product_list, t), <<>>, EmptyDict,
                        EmptyDict)
           rewrapped == IF link_metadata.type = "Metablock"
                        THEN Metablock(link) ELSE Envelope(link)
       IN StopSignAndDump(a, unfinished_fn, rewrapped, keyid,
                          trace \o <<"record_products">>, u, l, t)

\* Mutant: the link is always wrapped in a Metablock.
StopProducts_Metablock(a, unfinished_fn, link_metadata, keyid, trace, u, l, t) ==
  IF a.product_list # <<>> /\ a.mishap = "fail_products"
  THEN Raise("StorageError", trace \o <<"record_products">>, <<>>, u, l, t)
  ELSE LET link == [link_metadata.signed EXCEPT
                      !.products = RecordArtifacts(a.product_list, t)]
       IN StopSignAndDump(a, unfinished_fn, Metablock(link), keyid,
                          trace \o <<"record_products">>, u, l, t)

StopProducts(a, unfinished_fn, link_metadata, keyid, trace, u, l, t) ==
  IF a.product_list # <<>> /\ a.mishap = "fail_products"
  THEN Raise("StorageError", trace \o <<"record_products">>, <<>>, u, l, t)
  ELSE LET link == [link_metadata.signed EXCEPT
                      !.products = RecordArtifacts(a.product_list, t)]
           rewrapped == IF link_metadata.type = "Metablock"
                        THEN Metablock(link) ELSE Envelope(link)
       IN StopSignAndDump(a, unfinished_fn, rewrapped, keyid,
                          trace \o <<"record_products">>, u, l, t)

\* Mutant: the signature of the preliminary file is not verified.
StopVerify_NoVerify(a, unfinished_fn, trace, u, l, t) ==
  LET link_metadata == Metadata_load(unfinished_fn, u)
      keyid == IF a.signing_key # None THEN a.signing_key
               ELSE IF a.gpg_keyid # None THEN export_pubkey(a.gpg_keyid)
               ELSE export_pubkey(link_metadata.signatures[1])
  IN StopProducts(a, unfinished_fn, link_metadata, keyid, trace, u, l, t)

StopVerify(a, unfinished_fn, trace, u, l, t) ==
  LET link_metadata == Metadata_load(unfinished_fn, u)
      \* the id the verification key is exported for, when gpg is used
      asked == IF a.gpg_keyid # None THEN a.gpg_keyid
               ELSE IF link_metadata.signatures # <<>>
               THEN link_metadata.signatures[1]
               ELSE None
      keyid == IF a.signing_key # None THEN a.signing_key
               ELSE export_pubkey(asked)
      tr == IF a.signing_key # None THEN trace
            ELSE trace \o <<"export_pubkey">>
  IN IF a.signing_key = None /\ a.gpg_keyid = None
        /\ link_metadata.signatures = <<>>
     THEN Raise("IndexError", trace, <<>>, u, l, t)
     ELSE IF a.signing_key = None /\ ~GpgKnows(asked)
     THEN Raise("KeyNotFoundError", tr, <<>>, u, l, t)
     ELSE IF ~verify_signature(link_metadata, keyid)
     THEN Raise("SignatureVerificationError", tr \o <<"verify_signature">>,
                <<>>, u, l, t)
     ELSE StopProducts(a, unfinished_fn, link_metadata, keyid,
                       tr \o <<"verify_signature">>, u, l, t)

StopLoad(a, unfinished_fn, trace, u, l, t) ==
  IF ~CanLoad(unfinished_fn, u)
  THEN Raise("StorageError", trace \o <<"load">>, <<>>, u, l, t)
  ELSE StopVerify(a, unfinished_fn, trace \o <<"load">>, u, l, t)

\* Mutant: the first match is taken when several files match.
StopLocate_FirstMatch(a, u, l, t) ==
  IF a.signing_key # None
  THEN StopLoad(a, UNFINISHED_FILENAME_FORMAT(a.step_name, a.signing_key),
                <<>>, u, l, t)
  ELSE LET found == unfinished_fn_list(a.step_name, u)
       IN IF Cardinality(found) = 0
          THEN Raise("LinkNotFoundError", <<"glob">>, <<>>, u, l, t)
          ELSE StopLoad(a, CHOOSE fn \in found : TRUE, <<"glob">>, u, l, t)

\* Mutant: the file is searched for also when a private key is passed.
StopLocate_AlwaysGlob(a, u, l, t) ==
  LET found == unfinished_fn_list(a.step_name, u)
  IN IF Cardinality(found) # 1
     THEN Raise("LinkNotFoundError", <<"glob">>, <<>>, u, l, t)
     ELSE StopLoad(a, CHOOSE fn \in found : TRUE, <<"glob">>, u, l, t)

StopLocate(a, u, l, t) ==
  IF a.signing_key # None
  THEN StopLoad(a, UNFINISHED_FILENAME_FORMAT(a.step_name, a.signing_key),
                <<>>, u, l, t)
  ELSE LET found == unfinished_fn_list(a.step_name, u)
       IN IF Cardinality(found) = 0
          THEN Raise("LinkNotFoundError", <<"glob">>, <<>>, u, l, t)
          ELSE IF Cardinality(found) > 1
          THEN Raise("LinkNotFoundError", <<"glob">>, <<>>, u, l, t)
          ELSE StopLoad(a, CHOOSE fn \in found : TRUE, <<"glob">>, u, l, t)

in_toto_record_stop(a, u, l, t) ==
  IF NoCredential(a)
  THEN Raise("ValueError", <<>>, <<>>, u, l, t)
  ELSE IF BadKeyArgument(a) \/ BadScanArgument(a) \/ BadMetadataDirectory(a)
  THEN Raise("FormatError", <<>>, <<>>, u, l, t)
  ELSE StopLocate(a, u, l, t)

(***************************************************************************)
(* in_toto_record_stop in steps, for a call that passes a private key: it  *)
(* loads and verifies the preliminary file, then records the products and  *)
(* writes the final file, then removes the preliminary file.  Other calls  *)
(* can be made between its steps.                                          *)
(***************************************************************************)
\* No record_stop in progress.  deleted is the file that os.remove took.
StopIdle ==
  [pc |-> "idle", args |-> <<>>, unfinished_fn |-> <<>>,
   link_metadata |-> <<>>, trace |-> <<>>, signers |-> <<>>,
   deleted |-> NoFile]

\* The call can load the file of its step and key and verify it.
stop_can_load(a, u) ==
  LET unfinished_fn == UNFINISHED_FILENAME_FORMAT(a.step_name, a.signing_key)
  IN /\ CanLoad(unfinished_fn, u)
     /\ verify_signature(Metadata_load(unfinished_fn, u), a.signing_key)

\* link_metadata = Metadata.load(unfinished_fn); verify_signature
stop_load(a, u) ==
  LET unfinished_fn == UNFINISHED_FILENAME_FORMAT(a.step_name, a.signing_key)
  IN [StopIdle EXCEPT !.pc = "loaded", !.args = a,
                      !.unfinished_fn = unfinished_fn,
                      !.link_metadata = Metadata_load(unfinished_fn, u),
                      !.trace = <<"load", "verify_signature">>]

\* The products, the signature and the dump of the final file, for the
\* metadata loaded before: what StopProducts does up to the dump.
stop_dump(st, u, l, t) ==
  StopProducts(st.args, st.unfinished_fn, st.link_metadata,
               st.args.signing_key, st.trace, u, l, t)

\* Mutant: the preliminary file is removed only if it is still the file
\* that was loaded.
stop_remove_IfSame(st, u) ==
  IF u[st.unfinished_fn] = <<st.link_metadata>>
  THEN [u EXCEPT ![st.unfinished_fn] = NoFile] ELSE u

\* os.remove(unfinished_fn): the file of that name goes, whatever it holds.
stop_remove(st, u) == [u EXCEPT ![st.unfinished_fn] = NoFile]

(***************************************************************************)
(* Arguments the calls are made with.                                      *)
(***************************************************************************)
\* An id gpg does not know, besides the ids of its keyring.
UnknownGpgKeyid == Keyid(5, 1)

\* One credential per call: a private key, a gpg key id or the default key.
OneCredential ==
  [signing_key : LocalKeys, gpg_keyid : {None}, gpg_use_default : {FALSE}]
  \cup [signing_key : {None}, gpg_keyid : GpgKeys \cup {UnknownGpgKeyid},
         gpg_use_default : {FALSE}]
  \cup [signing_key : {None}, gpg_keyid : {None}, gpg_use_default : {TRUE}]

\* Any combination of the three key arguments, none included.
AnyCredentials ==
  [signing_key : {None, Keyid(1, 1)},
   gpg_keyid : {None, Keyid(3, 1)},
   gpg_use_default : BOOLEAN]

RunArguments(names, lists, commands, dirs, variants, mishaps, credentials) ==
  {[name |-> n, material_list |-> <<"a">>, product_list |-> pl,
    link_cmd_args |-> cmd, record_streams |-> TRUE,
    signing_key |-> c.signing_key, gpg_keyid |-> c.gpg_keyid,
    gpg_use_default |-> c.gpg_use_default, record_environment |-> FALSE,
    metadata_directory |-> d, use_dsse |-> v, mishap |-> m] :
   <<n, pl, cmd, d, v, m, c>> \in
     names \X lists \X commands \X dirs \X variants \X mishaps \X credentials}

StartArguments(names, variants, mishaps, credentials) ==
  {[step_name |-> n, material_list |-> <<"a">>,
    signing_key |-> c.signing_key, gpg_keyid |-> c.gpg_keyid,
    gpg_use_default |-> c.gpg_use_default, record_environment |-> FALSE,
    use_dsse |-> v, mishap |-> m] :
   <<n, v, m, c>> \in names \X variants \X mishaps \X credentials}

StopArguments(names, lists, dirs, mishaps, credentials) ==
  {[step_name |-> n, product_list |-> pl,
    signing_key |-> c.signing_key, gpg_keyid |-> c.gpg_keyid,
    gpg_use_default |-> c.gpg_use_default,
    metadata_directory |-> d, mishap |-> m] :
   <<n, pl, d, m, c>> \in names \X lists \X dirs \X mishaps \X credentials}

\* The calls of the start/stop protocol: well-formed arguments, one
\* credential, and the collaborators that can fail.
RunArgs ==
  RunArguments({"s1"}, {<<"a">>}, {<<"edit">>}, {None}, {FALSE}, {"none"},
               {[signing_key |-> None, gpg_keyid |-> None,
                 gpg_use_default |-> FALSE]})
StartArgs ==
  StartArguments(Steps, {FALSE}, {"none"}, OneCredential)
StopArgs ==
  StopArguments(Steps, ArtifactLists, {None}, {"none", "fail_products"},
                OneCredential)
  \cup StopArguments(Steps, {<<"a">>}, {None},
                     {"fail_sign", "fail_dump", "fail_remove"},
                     OneCredential)

\* The calls that try the argument checks: any combination of credentials,
\* with a malformed argument or a failing collaborator.
RunMishaps ==
  {"none", "bad_signing_key", "bad_gpg_keyid", "bad_exclude_patterns",
   "bad_base_path", "bad_metadata_directory", "bad_link_cmd_args",
   "bad_product_list", "fail_materials", "fail_execute", "fail_products",
   "fail_sign", "fail_dump"}
StartMishaps ==
  {"none", "bad_signing_key", "bad_gpg_keyid", "bad_exclude_patterns",
   "bad_base_path", "fail_materials", "fail_sign", "fail_dump"}
StopMishaps ==
  {"none", "bad_signing_key", "bad_gpg_keyid", "bad_exclude_patterns",
   "bad_base_path", "bad_metadata_directory", "fail_products", "fail_sign",
   "fail_dump", "fail_remove"}

AnyRunArgs ==
  RunArguments({"s1"}, {<<"a">>}, {<<"edit">>}, {None} \cup MetadataDirs,
               {FALSE}, RunMishaps, AnyCredentials)
AnyStartArgs ==
  StartArguments({"s1"}, {FALSE}, StartMishaps, AnyCredentials)
AnyStopArgs ==
  StopArguments({"s1"}, {<<"a">>}, {None}, StopMishaps, AnyCredentials)

(***************************************************************************)
(* execute_link: the supervised execution of the command.  The parent      *)
(* (execute_link and _subprocess_run_duplicate_streams) and the child      *)
(* process take steps in any order, and the clock ticks between them.      *)
(***************************************************************************)
\* in_toto.settings.LINK_CMD_EXEC_TIMEOUT, in ticks of the clock.
LINK_CMD_EXEC_TIMEOUT == 1

\* io.DEFAULT_BUFFER_SIZE, in characters.
DEFAULT_BUFFER_SIZE == 2

\* The return code of a child that was killed.
SIGKILL == 9

\* The clock stops at MaxTime; a child writes at most MaxOutput characters to
\* its two streams together; MaxExecCalls calls of in_toto_run run a command.
MaxTime == 2
MaxOutput == 3
MaxExecCalls == 1

ExitCodes == {0, 1}

\* What can fail in an execution: the creation of a temporary file, the
\* opening of the readers and writers, the launch of the command, a write to
\* the parent's own standard stream, the removal of a temporary file.  Each
\* step of the parent takes the flag fails: whether its call fails.

Min(m, n) == IF m < n THEN m ELSE n

\* No execution in progress.  fault is the call that failed last, if any;
\* child_out and child_err are what the child has written to its streams,
\* the n-th character being n; tmp holds the temporary files on disk; std is
\* the _std of the duplication and echo what was written to the parent's
\* own sys.stdout and sys.stderr; pending is the exception on its way
\* through the finally clause.
ExecIdle ==
  [pc |-> "idle", args |-> <<>>, fault |-> "none", child |-> "none",
   rc |-> 0, killed |-> FALSE, overran |-> FALSE, now |-> 0,
   child_out |-> <<>>, child_err |-> <<>>, tmp |-> {},
   std |-> [out |-> <<>>, err |-> <<>>],
   echo |-> [out |-> <<>>, err |-> <<>>], pending |-> "none",
   result |-> "none", ret |-> <<>>]

\* The call has raised, or returned the by-products.
Raised(e, exception) ==
  [e EXCEPT !.pc = "finished", !.result = exception, !.ret = <<>>]

\* The call named fault has failed.
Failed(e, fault) == [e EXCEPT !.fault = fault]

\* Mutant: a nonzero return code raises, as subprocess.run(check=True) does.
Returned_Checked(e, stdout_str, stderr_str, return_code) ==
  IF return_code # 0
  THEN [e EXCEPT !.pc = "finished", !.result = "CalledProcessError",
                 !.ret = <<>>]
  ELSE [e EXCEPT !.pc = "finished", !.result = "ok",
                 !.ret = <<stdout_str, stderr_str, return_code>>]

Returned(e, stdout_str, stderr_str, return_code) ==
  [e EXCEPT !.pc = "finished", !.result = "ok",
            !.ret = <<stdout_str, stderr_str, return_code>>]

\* An exception inside the try block: on to the finally clause.
Interrupted(e, exception) ==
  [e EXCEPT !.pending = exception, !.pc = "remove_out"]

\* stdout_fd, stdout_name = tempfile.mkstemp()
mkstemp_out(e, fails) ==
  IF fails THEN Raised(Failed(e, "mkstemp_out"), "OSError")
  ELSE [e EXCEPT !.tmp = @ \cup {"stdout"}, !.pc = "mkstemp_err"]

\* stderr_fd, stderr_name = tempfile.mkstemp()
mkstemp_err(e, fails) ==
  IF fails THEN Raised(Failed(e, "mkstemp_err"), "OSError")
  ELSE [e EXCEPT !.tmp = @ \cup {"stderr"}, !.pc = "open"]

\* with io.open(...) as stdout_reader, os.fdopen(...) as stdout_writer, ...
open_streams(e, fails) ==
  IF fails THEN Interrupted(Failed(e, "open"), "OSError")
  ELSE [e EXCEPT !.pc = "popen"]

\* proc = subprocess.Popen(...); proc_start_time = time.time()
Popen(e, fails) ==
  IF fails THEN Interrupted(Failed(e, "popen"), "OSError")
  ELSE [e EXCEPT !.child = "running", !.now = 0, !.pc = "poll"]

\* Mutant: each read starts at the beginning of the file.
Read_FromStart(file, have) == SubSeq(file, 1, Min(Len(file), DEFAULT_BUFFER_SIZE))

\* reader.read(io.DEFAULT_BUFFER_SIZE): what follows the part read so far,
\* at most DEFAULT_BUFFER_SIZE characters of it.
Read(file, have) ==
  SubSeq(file, Len(have) + 1,
         Min(Len(file), Len(have) + DEFAULT_BUFFER_SIZE))

\* The writes of _duplicate_streams that can fail.
WriteCalls == {"sys.stdout.write", "sys.stderr.write"}

\* _duplicate_streams: one read of each stream, written to sys.stdout and
\* sys.stderr and then appended to _std.  When the write named by at fails,
\* what was written before it stays written and _std is left as it was.
duplicate_streams(e, fails, at) ==
  LET stdout_part == Read(e.child_out, e.std.out)
      stderr_part == Read(e.child_err, e.std.err)
  IN IF fails /\ at = "sys.stdout.write"
     THEN Interrupted(Failed(e, "write"), "OSError")
     ELSE IF fails
     THEN Interrupted(
            Failed([e EXCEPT !.echo.out = @ \o stdout_part], "write"),
            "OSError")
     ELSE [e EXCEPT !.echo = [out |-> @.out \o stdout_part,
                              err |-> @.err \o stderr_part],
                    !.std = [out |-> @.out \o stdout_part,
                             err |-> @.err \o stderr_part]]

\* Mutant: the deadline is never checked.
Expired_Never(now) == FALSE

\* time.time() > proc_start_time + timeout
Expired(now) == now > LINK_CMD_EXEC_TIMEOUT

\* Mutant: the child is killed and not waited for.
Expire_NoWait(e) ==
  Interrupted([e EXCEPT !.child = "killed", !.killed = TRUE, !.rc = -SIGKILL],
              "TimeoutExpired")

\* proc.kill(); proc.wait(); raise subprocess.TimeoutExpired(cmd, timeout)
Expire(e) ==
  Interrupted([e EXCEPT !.child = "reaped", !.killed = TRUE, !.rc = -SIGKILL],
              "TimeoutExpired")

\* One turn of "while proc.poll() is None".
poll(e, fails, at) ==
  IF e.child # "running" THEN [e EXCEPT !.child = "reaped", !.pc = "drain"]
  ELSE IF Expired(e.now) THEN Expire(e)
  ELSE duplicate_streams(e, fails, at)

\* The _duplicate_streams after the loop, and the end of the try block.
drain(e, fails, at) ==
  LET d == duplicate_streams(e, fails, at)
  IN IF d.pending # "none" THEN d ELSE [d EXCEPT !.pc = "remove_out"]

\* finally: os.remove(stdout_name)
remove_out(e, fails) ==
  IF fails THEN Raised(Failed(e, "remove_out"), "OSError")
  ELSE [e EXCEPT !.tmp = @ \ {"stdout"}, !.pc = "remove_err"]

\* os.remove(stderr_name); then the pending exception goes on, or
\* execute_link returns the streams and proc.poll().
remove_err(e, fails) ==
  IF fails THEN Raised(Failed(e, "remove_err"), "OSError")
  ELSE LET f == [e EXCEPT !.tmp = @ \ {"stderr"}]
       IN IF e.pending # "none" THEN Raised(f, e.pending)
          ELSE Returned(f, e.std.out, e.std.err, e.rc)

\* subprocess.run(...) of the branch without duplication: the launch.
run_popen(e, fails) ==
  IF fails THEN Raised(Failed(e, "popen"), "OSError")
  ELSE [e EXCEPT !.child = "running", !.now = 0, !.pc = "run_wait"]

\* subprocess.run(check=False): the child has exited, whatever its code.
run_returns(e) ==
  Returned([e EXCEPT !.child = "reaped"], <<>>, <<>>, e.rc)

\* subprocess.run(timeout=...): the deadline passes while the child runs.
run_expires(e) ==
  Raised([e EXCEPT !.child = "reaped", !.killed = TRUE, !.rc = -SIGKILL,
                   !.overran = TRUE, !.now = @ + 1],
         "TimeoutExpired")

\* No scan made yet.
NoScan == <<>>

(***************************************************************************)
(* record_artifacts_as_dict: the recording of the artifacts.  A path is    *)
(* the sequence of its names and separators ("sub/x" is <<"sub", "/",      *)
(* "x">>); a tree is the set of the paths of its regular files.            *)
(***************************************************************************)
\* The most paths in a list of artifacts, and prefixes in lstrip_paths.
MaxRoots == 2
MaxPrefixes == 2

Dot == <<".">>

\* The files a tree can hold.  The last one is a file of the top directory
\* whose name holds a backslash, which is no separator on this host.
FileUniverse ==
  {<<"x">>, <<"sub", "/", "x">>, <<"sub", "/", "d", "/", "x">>,
   <<"sub", "\\", "x">>}

DirUniverse == {<<"sub">>, <<"sub", "/", "d">>}

\* All paths, as sorted() orders their strings.
PathOrder ==
  << Dot, <<"sub">>, <<"sub", "/", "d">>, <<"sub", "/", "d", "/", "x">>,
     <<"sub", "/", "x">>, <<"sub", "\\", "x">>, <<"x">> >>

Trees == SUBSET FileUniverse

\* Paths a caller passes in the list of artifacts.
RootPaths ==
  {Dot, <<"sub">>, <<"sub", "/", "x">>, <<".", "/", "x">>}

\* Prefixes a caller passes in lstrip_paths.
StripPrefixes ==
  {<<"sub", "/">>, <<"sub">>, <<"sub", "/", "d", "/">>, <<"x">>}

\* Lists, without and with repetitions, of at most n elements of a set.
RECURSIVE ListsUpTo(_, _)
ListsUpTo(S, n) ==
  IF n = 0 THEN {<<>>}
  ELSE LET shorter == ListsUpTo(S, n - 1)
       IN shorter \cup {Append(l, x) : l \in shorter, x \in S}

\* The elements of a set of paths, in sorted order.
Sorted(S) == SelectSeq(PathOrder, LAMBDA p : p \in S)

\* str.startswith
StartsWith(path, prefix) ==
  /\ Len(prefix) <= Len(path)
  /\ SubSeq(path, 1, Len(prefix)) = prefix

\* The directory a path lies in.
Parent(path) ==
  LET seps == {i \in DOMAIN path : path[i] = "/"}
  IN IF seps = {} THEN Dot
     ELSE SubSeq(path, 1, (CHOOSE i \in seps : \A j \in seps : j <= i) - 1)

\* The directories above a path, the top directory left out.
RECURSIVE Ancestors(_)
Ancestors(path) ==
  IF Parent(path) = Dot THEN {}
  ELSE {Parent(path)} \cup Ancestors(Parent(path))

\* os.path.isfile, os.path.isdir
isfile(path, t) == path \in t
isdir(path, t) == path = Dot \/ \E f \in t : path \in Ancestors(f)

\* os.path.normpath, for the paths passed: "./x" is "x".
normpath(path) ==
  IF Len(path) > 2 /\ path[1] = "." /\ path[2] = "/"
  THEN SubSeq(path, 3, Len(path))
  ELSE path

\* path.replace("\\", "/")
replace_backslash(path) ==
  [i \in DOMAIN path |-> IF path[i] = "\\" THEN "/" ELSE path[i]]

\* _hash_artifact: the digest of a file, which tells the files apart.
hash_artifact(filepath) == <<"sha256", filepath>>

\* The recording so far: the dict, the files hashed in order, and the
\* exception raised, if any.
Recording(dict, hashed, error) ==
  [dict |-> dict, hashed |-> hashed, error |-> error]

\* _apply_exclude_patterns: the names the filter does not match, sorted and
\* without repetition.  A filter is given by the set of paths it matches.
apply_exclude_patterns(names, matched) ==
  Sorted({names[i] : i \in DOMAIN names} \ matched)

\* The prefix of the list that is stripped: the first one the path starts
\* with.
FirstPrefix(filepath, lstrip_paths) ==
  LET hits == {i \in DOMAIN lstrip_paths :
                 StartsWith(filepath, lstrip_paths[i])}
  IN IF hits = {} THEN <<>>
     ELSE lstrip_paths[CHOOSE i \in hits : \A j \in hits : i <= j]

Stripped(filepath, lstrip_paths) ==
  SubSeq(filepath, Len(FirstPrefix(filepath, lstrip_paths)) + 1,
         Len(filepath))

\* key = _apply_left_strip(...); artifacts_dict[key] = _hash_artifact(...)
\* for the file at filepath, recorded under the path normalized.
apply_left_strip(r, normalized, filepath, lstrip_paths, t) ==
  LET key == IF lstrip_paths # <<>> THEN Stripped(normalized, lstrip_paths)
             ELSE normalized
  IN IF r.error # "none" THEN r
     ELSE IF lstrip_paths # <<>> /\ key \in DOMAIN r.dict
     THEN [r EXCEPT !.error = "PrefixError"]
     ELSE IF ~isfile(filepath, t)
     THEN [r EXCEPT !.error = "StorageError"]
     ELSE Recording((key :> hash_artifact(filepath)) @@ r.dict,
                    Append(r.hashed, filepath), "none")

\* The loop over the files of one directory.
RECURSIVE record_files(_, _, _, _)
record_files(r, filepaths, lstrip_paths, t) ==
  IF filepaths = <<>> THEN r
  ELSE record_files(
         apply_left_strip(r, replace_backslash(Head(filepaths)),
                          Head(filepaths), lstrip_paths, t),
         Tail(filepaths), lstrip_paths, t)

\* Mutant: the directories are not filtered.
remaining_dirs_All(dirpaths, exclude_patterns) == dirpaths

\* The directories os.walk goes on into, of those of one directory.
remaining_dirs(dirpaths, exclude_patterns) ==
  IF exclude_patterns # <<>>
  THEN apply_exclude_patterns(dirpaths, exclude_patterns[1])
  ELSE dirpaths

\* The files recorded, of those of one directory.
remaining_files(filepaths, exclude_patterns) ==
  IF exclude_patterns # <<>>
  THEN apply_exclude_patterns(filepaths, exclude_patterns[1])
  ELSE filepaths

\* os.walk(artifact): the directory itself, then the directories left in
\* dirs, each with all below it.  The dirpaths and filepaths of a directory
\* are the paths of the tree that lie in it: root joined with their names.
RECURSIVE walk(_, _, _, _, _)
RECURSIVE walk_dirs(_, _, _, _, _)
walk(r, root, exclude_patterns, lstrip_paths, t) ==
  LET dirpaths == Sorted({d \in DirUniverse :
                            Parent(d) = root /\ isdir(d, t)})
      filepaths == Sorted({f \in t : Parent(f) = root})
      here == record_files(r, remaining_files(filepaths, exclude_patterns),
                           lstrip_paths, t)
  IN walk_dirs(here, remaining_dirs(dirpaths, exclude_patterns),
               exclude_patterns, lstrip_paths, t)

walk_dirs(r, dirs, exclude_patterns, lstrip_paths, t) ==
  IF dirs = <<>> \/ r.error # "none" THEN r
  ELSE walk_dirs(walk(r, Head(dirs), exclude_patterns, lstrip_paths, t),
                 Tail(dirs), exclude_patterns, lstrip_paths, t)

\* The loop over the normalized paths of the list of artifacts.
RECURSIVE record_roots(_, _, _, _, _)
record_roots(r, norm_artifacts, exclude_patterns, lstrip_paths, t) ==
  IF norm_artifacts = <<>> \/ r.error # "none" THEN r
  ELSE LET artifact == Head(norm_artifacts)
           next ==
             IF isfile(artifact, t)
             THEN apply_left_strip(r, replace_backslash(artifact),
                                   replace_backslash(artifact),
                                   lstrip_paths, t)
             ELSE IF isdir(artifact, t)
             THEN walk(r, artifact, exclude_patterns, lstrip_paths, t)
             ELSE r
       IN record_roots(next, Tail(norm_artifacts), exclude_patterns,
                       lstrip_paths, t)

\* Mutant: the prefixes are not compared.
prefix_overlap_Never(lstrip_paths) == FALSE

\* Two of the prefixes of lstrip_paths are one the start of the other.
prefix_overlap(lstrip_paths) ==
  \E i, j \in DOMAIN lstrip_paths :
    /\ i < j
    /\ \/ StartsWith(lstrip_paths[i], lstrip_paths[j])
       \/ StartsWith(lstrip_paths[j], lstrip_paths[i])

\* record_artifacts_as_dict(artifacts, exclude_patterns, lstrip_paths) on
\* the tree t.  exclude_patterns is <<>> for no patterns, and else holds the
\* set of the paths the patterns match.
record_artifacts_as_dict(artifacts, exclude_patterns, lstrip_paths, t) ==
  LET EmptyRecording == Recording(<<>>, <<>>, "none")
      normed == [i \in DOMAIN artifacts |-> normpath(artifacts[i])]
      norm_artifacts ==
        IF exclude_patterns # <<>>
        THEN apply_exclude_patterns(normed, exclude_patterns[1])
        ELSE normed
  IN IF artifacts = <<>> THEN EmptyRecording
     ELSE IF prefix_overlap(lstrip_paths)
     THEN [EmptyRecording EXCEPT !.error = "PrefixError"]
     ELSE record_roots(EmptyRecording, norm_artifacts, exclude_patterns,
                       lstrip_paths, t)

(***************************************************************************)
(* record_artifacts_as_dict as a whole: the settings, the base path and    *)
(* the working directory around the recording.  An optional argument is    *)
(* None or <<value>>; a list of exclude patterns is given by the number of *)
(* its names, whether it matches NAMES_SCHEMA, and the set of the paths it *)
(* matches.                                                                *)
(***************************************************************************)
Patterns(names, wellformed, matched) ==
  [names |-> names, wellformed |-> wellformed, matched |-> matched]

\* The empty list of patterns.
NoPatterns == Patterns(0, TRUE, {})

\* The directory the caller is in, a directory to change to, and a path
\* that is no directory.
OriginalCwd == "/work"
BaseDir == "/base"
MissingDir == "/missing"

\* Python's truth of an optional list of patterns and of an optional path.
TruePatterns(exclude_patterns) ==
  exclude_patterns # None /\ exclude_patterns[1].names > 0
TruePath(base_path) == base_path # None /\ base_path[1] # ""

\* exclude_patterns after "if exclude_patterns: ... else: exclude_patterns =
\* in_toto.settings.ARTIFACT_EXCLUDE_PATTERNS"
effective_exclude_patterns(exclude_patterns, settings) ==
  IF TruePatterns(exclude_patterns) THEN exclude_patterns
  ELSE <<settings.ARTIFACT_EXCLUDE_PATTERNS>>

\* base_path after "if base_path: ... else: base_path =
\* in_toto.settings.ARTIFACT_BASE_PATH"
effective_base_path(base_path, settings) ==
  IF TruePath(base_path) THEN base_path ELSE settings.ARTIFACT_BASE_PATH

\* What a call leaves: the recording, the working directory, and the
\* patterns and the base path it used, None where it did not come to them.
Left(result, cwd, exclude_patterns, base_path) ==
  [result |-> result, cwd |-> cwd, exclude_patterns |-> exclude_patterns,
   base_path |-> base_path]

\* "if base_path: os.chdir(original_cwd)", the last statement before the
\* return: an exception raised before it passes it by.
chdir_back(r, base_path, original_cwd, cwd) ==
  IF r.error = "none" /\ TruePath(base_path) THEN original_cwd ELSE cwd

\* record_artifacts_as_dict(artifacts, exclude_patterns, base_path,
\* lstrip_paths) called in the directory cwd, with the tree disk[d] in each
\* directory d.
record_artifacts_as_dict_in(a, settings, cwd, disk) ==
  LET base_path == effective_base_path(a.base_path, settings)
      exclude_patterns ==
        effective_exclude_patterns(a.exclude_patterns, settings)
      inside == IF TruePath(base_path) THEN base_path[1] ELSE cwd
      failed(error) == Recording(<<>>, <<>>, error)
      r == IF TruePatterns(exclude_patterns)
              /\ ~exclude_patterns[1].wellformed
           THEN failed("FormatError")
           ELSE record_artifacts_as_dict(
                  a.artifacts,
                  IF TruePatterns(exclude_patterns)
                  THEN <<exclude_patterns[1].matched>> ELSE <<>>,
                  a.lstrip_paths, disk[inside])
  IN IF a.artifacts = <<>>
     THEN Left(Recording(<<>>, <<>>, "none"), cwd, None, None)
     ELSE IF TruePath(base_path) /\ base_path[1] \notin DOMAIN disk
     THEN Left(failed("ValueError"), cwd, None, base_path)
     ELSE Left(r, chdir_back(r, base_path, cwd, inside), exclude_patterns,
               base_path)

(***************************************************************************)
(* The state machine.                                                      *)
(***************************************************************************)
\* How many of the three key arguments a call passes.
Given(a) ==
  (IF a.signing_key # None THEN 1 ELSE 0)
  + (IF a.gpg_keyid # None THEN 1 ELSE 0)
  + (IF a.gpg_use_default THEN 1 ELSE 0)

Apply(op, a, o, bound) ==
  /\ calls < bound
  /\ calls' = calls + 1
  /\ unfinished' = o.unfinished
  /\ links' = o.links
  /\ tree' = o.tree
  /\ removed' = removed \cup o.removed
  /\ last' = [op |-> op, args |-> a, result |-> o.result, trace |-> o.trace,
              signers |-> o.signers, ret |-> o.ret]
  /\ exec' = ExecIdle
  /\ UNCHANGED <<scan, stopping>>

Run == \E a \in RunArgs :
  Apply("in_toto_run", a, in_toto_run(a, unfinished, links, tree), MaxCalls)

RecordStart == \E a \in StartArgs :
  Apply("in_toto_record_start", a,
        in_toto_record_start(a, unfinished, links, tree), MaxCalls)

RecordStop == \E a \in StopArgs :
  Apply("in_toto_record_stop", a,
        in_toto_record_stop(a, unfinished, links, tree), MaxCalls)

RunAny == \E a \in AnyRunArgs :
  Apply("in_toto_run", a, in_toto_run(a, unfinished, links, tree),
        MaxArgCalls)

RecordStartAny == \E a \in AnyStartArgs :
  Apply("in_toto_record_start", a,
        in_toto_record_start(a, unfinished, links, tree), MaxArgCalls)

RecordStopAny == \E a \in AnyStopArgs :
  Apply("in_toto_record_stop", a,
        in_toto_record_stop(a, unfinished, links, tree), MaxArgCalls)

Init ==
  /\ unfinished = [fn \in UnfinishedNames |-> NoFile]
  /\ links = [fn \in LinkNames |-> NoFile]
  /\ tree = 1
  /\ removed = {}
  /\ calls = 0
  /\ last = [op |-> "none", args |-> <<>>, result |-> "ok", trace |-> <<>>,
             signers |-> <<>>, ret |-> <<>>]
  /\ exec = ExecIdle
  /\ scan = NoScan
  /\ stopping = StopIdle

Next == Run \/ RecordStart \/ RecordStop

\* The start/stop protocol.
Spec == Init /\ [][Next]_vars

NextArgs == RunAny \/ RecordStartAny \/ RecordStopAny

\* The argument checks and the choice of the signer.
SpecArgs == Init /\ [][NextArgs]_vars

(***************************************************************************)
(* in_toto_run with the execution of its command in steps.                 *)
(***************************************************************************)
\* The calls that run a command: signed with a private key, with and
\* without the duplication of the streams.
ExecRunArgs ==
  {[a EXCEPT !.record_streams = rs] :
     a \in RunArguments({"s1"}, {<<"a">>}, {<<"edit">>}, {None}, {FALSE},
                        {"none"},
                        {[signing_key |-> Keyid(1, 1), gpg_keyid |-> None,
                          gpg_use_default |-> FALSE]}),
     rs \in BOOLEAN}

ExecStep(e) ==
  /\ exec' = e
  /\ UNCHANGED <<unfinished, links, tree, last, removed, calls, scan, stopping>>

\* in_toto_run reaches its call of execute_link.
RunBegin == \E a \in ExecRunArgs :
  /\ exec.pc = "idle"
  /\ calls < MaxExecCalls
  /\ ExecStep([ExecIdle EXCEPT
                 !.pc = IF a.record_streams THEN "mkstemp_out"
                        ELSE "run_popen",
                 !.args = a])

MkstempOut == \E fails \in BOOLEAN :
  exec.pc = "mkstemp_out" /\ ExecStep(mkstemp_out(exec, fails))

MkstempErr == \E fails \in BOOLEAN :
  exec.pc = "mkstemp_err" /\ ExecStep(mkstemp_err(exec, fails))

OpenStreams == \E fails \in BOOLEAN :
  exec.pc = "open" /\ ExecStep(open_streams(exec, fails))

StartChild == \E fails \in BOOLEAN :
  exec.pc = "popen" /\ ExecStep(Popen(exec, fails))

Poll == \E fails \in BOOLEAN, at \in WriteCalls :
  exec.pc = "poll" /\ ExecStep(poll(exec, fails, at))

Drain == \E fails \in BOOLEAN, at \in WriteCalls :
  exec.pc = "drain" /\ ExecStep(drain(exec, fails, at))

RemoveOut == \E fails \in BOOLEAN :
  exec.pc = "remove_out" /\ ExecStep(remove_out(exec, fails))

RemoveErr == \E fails \in BOOLEAN :
  exec.pc = "remove_err" /\ ExecStep(remove_err(exec, fails))

RunPopen == \E fails \in BOOLEAN :
  exec.pc = "run_popen" /\ ExecStep(run_popen(exec, fails))

RunReturns ==
  /\ exec.pc = "run_wait" /\ exec.child = "exited"
  /\ ExecStep(run_returns(exec))

RunExpires ==
  /\ exec.pc = "run_wait" /\ exec.child = "running"
  /\ exec.now = LINK_CMD_EXEC_TIMEOUT
  /\ ExecStep(run_expires(exec))

\* The child writes a character to its standard output or standard error.
ChildWriteOut ==
  /\ exec.child = "running"
  /\ Len(exec.child_out) + Len(exec.child_err) < MaxOutput
  /\ ExecStep([exec EXCEPT !.child_out = Append(@, Len(@) + 1)])

ChildWriteErr ==
  /\ exec.child = "running"
  /\ Len(exec.child_out) + Len(exec.child_err) < MaxOutput
  /\ ExecStep([exec EXCEPT !.child_err = Append(@, Len(@) + 1)])

ChildExit == \E rc \in ExitCodes :
  /\ exec.child = "running"
  /\ ExecStep([exec EXCEPT !.child = "exited", !.rc = rc])

\* The clock ticks while the parent supervises the child; subprocess.run
\* does not let the deadline pass (RunExpires).  A child that runs when the
\* clock passes the deadline has a run time above the timeout.
Tick ==
  /\ exec.pc \in {"poll", "run_wait"}
  /\ exec.now < MaxTime
  /\ ~(exec.pc = "run_wait" /\ exec.child = "running"
       /\ exec.now >= LINK_CMD_EXEC_TIMEOUT)
  /\ ExecStep([exec EXCEPT
                 !.now = @ + 1,
                 !.overran = @ \/ (exec.child = "running"
                                   /\ exec.now + 1 > LINK_CMD_EXEC_TIMEOUT)])

\* execute_link has raised or returned: the rest of in_toto_run.
RunEnd ==
  /\ exec.pc = "finished"
  /\ Apply("in_toto_run", exec.args,
           in_toto_run_with(exec.args,
                            [result |-> exec.result, byproducts |-> exec.ret],
                            unfinished, links, tree),
           MaxExecCalls)

NextExec ==
  \/ RunBegin \/ MkstempOut \/ MkstempErr \/ OpenStreams \/ StartChild
  \/ Poll \/ Drain \/ RemoveOut \/ RemoveErr
  \/ RunPopen \/ RunReturns \/ RunExpires
  \/ ChildWriteOut \/ ChildWriteErr \/ ChildExit \/ Tick
  \/ RunEnd

\* The execution of the command of an in_toto_run call.
SpecExec == Init /\ [][NextExec]_vars

\* One call of execute_link from its start to its return or raise.
NextExecute ==
  \/ RunBegin \/ MkstempOut \/ MkstempErr \/ OpenStreams \/ StartChild
  \/ Poll \/ Drain \/ RemoveOut \/ RemoveErr
  \/ RunPopen \/ RunReturns \/ RunExpires
  \/ ChildWriteOut \/ ChildWriteErr \/ ChildExit \/ Tick

\* A step of _subprocess_run_duplicate_streams in which nothing fails.
ParentProceeds ==
  \/ exec.pc = "mkstemp_out" /\ ExecStep(mkstemp_out(exec, FALSE))
  \/ exec.pc = "mkstemp_err" /\ ExecStep(mkstemp_err(exec, FALSE))
  \/ exec.pc = "open" /\ ExecStep(open_streams(exec, FALSE))
  \/ exec.pc = "popen" /\ ExecStep(Popen(exec, FALSE))
  \/ exec.pc = "poll" /\ ExecStep(poll(exec, FALSE, "sys.stdout.write"))
  \/ exec.pc = "drain" /\ ExecStep(drain(exec, FALSE, "sys.stdout.write"))
  \/ exec.pc = "remove_out" /\ ExecStep(remove_out(exec, FALSE))
  \/ exec.pc = "remove_err" /\ ExecStep(remove_err(exec, FALSE))

\* The parent is scheduled fairly and the clock goes on: a step of
\* _subprocess_run_duplicate_streams that can be taken is taken in the end,
\* and time passes.  Nothing obliges a call to fail, and nothing obliges the
\* child to write or to exit.
SpecExecFair ==
  Init /\ [][NextExecute]_vars /\ WF_vars(ParentProceeds) /\ WF_vars(Tick)

(***************************************************************************)
(* Calls of record_artifacts_as_dict.                                      *)
(***************************************************************************)
\* The sets of paths a list of exclude patterns can match.
MatchedSets ==
  SUBSET {<<"sub">>, <<"sub", "/", "d">>, <<"sub", "/", "x">>, <<"x">>}

Scanned(artifacts, exclude_patterns, lstrip_paths, t) ==
  /\ scan' = [artifacts |-> artifacts, exclude_patterns |-> exclude_patterns,
              lstrip_paths |-> lstrip_paths, tree |-> t,
              result |-> record_artifacts_as_dict(artifacts, exclude_patterns,
                                                  lstrip_paths, t)]
  /\ UNCHANGED <<unfinished, links, tree, last, removed, calls, exec, stopping>>

\* A call with exclude patterns, or without, and no lstrip_paths.
RecordExcluding ==
  /\ scan = NoScan
  /\ \E t \in Trees, artifacts \in ListsUpTo(RootPaths, MaxRoots),
        exclude_patterns \in {<<>>} \cup {<<m>> : m \in MatchedSets} :
       Scanned(artifacts, exclude_patterns, <<>>, t)

\* A call with lstrip_paths, or without.
RecordStripping ==
  /\ scan = NoScan
  /\ \E t \in Trees, artifacts \in ListsUpTo(RootPaths, MaxRoots),
        lstrip_paths \in ListsUpTo(StripPrefixes, MaxPrefixes),
        exclude_patterns \in {<<>>, <<{<<"sub", "/", "d">>}>>} :
       Scanned(artifacts, exclude_patterns, lstrip_paths, t)

NextScan == RecordExcluding \/ RecordStripping

\* The recording of artifacts.
SpecScan == Init /\ [][NextScan]_vars

(***************************************************************************)
(* The start/stop protocol with both envelope variants.                    *)
(***************************************************************************)
\* One credential of each kind.
VariantCredentials ==
  {[signing_key |-> Keyid(1, 1), gpg_keyid |-> None,
    gpg_use_default |-> FALSE],
   [signing_key |-> None, gpg_keyid |-> Keyid(3, 1),
    gpg_use_default |-> FALSE],
   [signing_key |-> None, gpg_keyid |-> None, gpg_use_default |-> TRUE]}

\* record_start with use_dsse False and True.
VariantStartArgs ==
  StartArguments(Steps, BOOLEAN, {"none"}, VariantCredentials)

VariantStopArgs ==
  StopArguments(Steps, ArtifactLists, {None} \cup MetadataDirs, {"none"},
                VariantCredentials)

RecordStartVariant == \E a \in VariantStartArgs :
  Apply("in_toto_record_start", a,
        in_toto_record_start(a, unfinished, links, tree), MaxCalls)

RecordStopVariant == \E a \in VariantStopArgs :
  Apply("in_toto_record_stop", a,
        in_toto_record_stop(a, unfinished, links, tree), MaxCalls)

NextVariant == RecordStartVariant \/ RecordStopVariant

SpecVariant == Init /\ [][NextVariant]_vars

(***************************************************************************)
(* The start/stop protocol with the default gpg key only.                  *)
(***************************************************************************)
DefaultCredential ==
  {[signing_key |-> None, gpg_keyid |-> None, gpg_use_default |-> TRUE]}

DefaultStartArgs ==
  StartArguments(Steps, BOOLEAN, {"none", "fail_sign", "fail_dump"},
                 DefaultCredential)

DefaultStopArgs ==
  StopArguments(Steps, ArtifactLists, {None} \cup MetadataDirs,
                {"none", "fail_products", "fail_sign", "fail_dump",
                 "fail_remove"},
                DefaultCredential)

RecordStartDefault == \E a \in DefaultStartArgs :
  Apply("in_toto_record_start", a,
        in_toto_record_start(a, unfinished, links, tree), MaxCalls)

RecordStopDefault == \E a \in DefaultStopArgs :
  Apply("in_toto_record_stop", a,
        in_toto_record_stop(a, unfinished, links, tree), MaxCalls)

NextDefault == RecordStartDefault \/ RecordStopDefault

SpecDefault == Init /\ [][NextDefault]_vars

(***************************************************************************)
(* The start/stop protocol with the environment recorded or not, and a     *)
(* command that changes the artifact between the two calls.                *)
(***************************************************************************)
PayloadStartArgs ==
  {[a EXCEPT !.record_environment = re] :
     a \in StartArguments(Steps, BOOLEAN, {"none"}, VariantCredentials),
     re \in BOOLEAN}

PayloadStopArgs ==
  StopArguments(Steps, ArtifactLists, {None}, {"none"}, VariantCredentials)

RecordStartPayload == \E a \in PayloadStartArgs :
  Apply("in_toto_record_start", a,
        in_toto_record_start(a, unfinished, links, tree), MaxCalls)

RecordStopPayload == \E a \in PayloadStopArgs :
  Apply("in_toto_record_stop", a,
        in_toto_record_stop(a, unfinished, links, tree), MaxCalls)

NextPayload == RecordStartPayload \/ Run \/ RecordStopPayload

SpecPayload == Init /\ [][NextPayload]_vars

(***************************************************************************)
(* Calls of record_artifacts_as_dict with settings and a base path.        *)
(***************************************************************************)
\* The lists of patterns passed or set: the empty list, a list that matches
\* the file x, and a list that is no list of names.
PatternLists ==
  {NoPatterns, Patterns(1, TRUE, {<<"x">>}), Patterns(1, FALSE, {})}

\* in_toto.settings
Settings ==
  [ARTIFACT_EXCLUDE_PATTERNS :
     {NoPatterns, Patterns(1, TRUE, {<<"sub", "/", "x">>})},
   ARTIFACT_BASE_PATH : {None, <<BaseDir>>}]

\* The trees of the two directories.
Disks ==
  [{OriginalCwd, BaseDir} ->
     {{<<"x">>}, {<<"x">>, <<"sub", "/", "x">>}, {<<"sub", "\\", "x">>}}]

\* The arguments of the calls: no artifacts, the directory, and a file
\* whose name holds a backslash; no lstrip_paths, and two that overlap.
ScanArguments ==
  [artifacts : {<<>>, <<Dot>>, << <<"sub", "\\", "x">> >>},
   exclude_patterns : {None} \cup {<<l>> : l \in PatternLists},
   base_path : {None, <<"">>, <<BaseDir>>, <<MissingDir>>},
   lstrip_paths : {<<>>, << <<"sub", "/">>, <<"sub">> >>}]

RecordIn ==
  /\ scan = NoScan
  /\ \E a \in ScanArguments, settings \in Settings, disk \in Disks :
       /\ scan' = [args |-> a, settings |-> settings, disk |-> disk,
                   cwd |-> OriginalCwd,
                   left |-> record_artifacts_as_dict_in(a, settings,
                                                        OriginalCwd, disk)]
       /\ UNCHANGED <<unfinished, links, tree, last, removed, calls, exec, stopping>>

NextIn == RecordIn

\* The recording of artifacts with its settings and its base path.
SpecIn == Init /\ [][NextIn]_vars

(***************************************************************************)
(* in_toto_record_stop in steps, with in_toto_record_start calls and       *)
(* commands between the steps.                                             *)
(***************************************************************************)
\* The calls for one step and one private key.
SameKey ==
  {[signing_key |-> Keyid(1, 1), gpg_keyid |-> None,
    gpg_use_default |-> FALSE]}

ConcurrentStartArgs == StartArguments({"s1"}, BOOLEAN, {"none"}, SameKey)

ConcurrentStopArgs ==
  StopArguments({"s1"}, {<<"a">>}, {None}, {"none"}, SameKey)

StopStep(st) ==
  /\ stopping' = st
  /\ UNCHANGED <<unfinished, tree, last, removed, calls, exec, scan>>

RecordStartMeanwhile == \E a \in ConcurrentStartArgs :
  Apply("in_toto_record_start", a,
        in_toto_record_start(a, unfinished, links, tree), MaxCalls)

\* record_stop loads and verifies the preliminary file; where it cannot,
\* the call raises as a whole.
StopLoads == \E a \in ConcurrentStopArgs :
  /\ stopping.pc = "idle"
  /\ IF stop_can_load(a, unfinished)
     THEN StopStep(stop_load(a, unfinished)) /\ UNCHANGED links
     ELSE Apply("in_toto_record_stop", a,
                in_toto_record_stop(a, unfinished, links, tree), MaxCalls)

\* record_stop records the products and writes the final file.
StopDumps ==
  /\ stopping.pc = "loaded"
  /\ LET o == stop_dump(stopping, unfinished, links, tree)
     IN /\ links' = o.links
        /\ StopStep([stopping EXCEPT !.pc = "dumped", !.trace = o.trace,
                                     !.signers = o.signers])

\* record_stop removes the preliminary file and returns.
StopRemoves ==
  /\ stopping.pc = "dumped"
  /\ unfinished' = stop_remove(stopping, unfinished)
  /\ removed' = removed \cup {stopping.unfinished_fn}
  /\ calls' = calls + 1
  /\ last' = [op |-> "in_toto_record_stop", args |-> stopping.args,
              result |-> "ok", trace |-> stopping.trace,
              signers |-> stopping.signers, ret |-> <<>>]
  /\ stopping' = [stopping EXCEPT
                    !.pc = "done",
                    !.deleted = unfinished[stopping.unfinished_fn]]
  /\ UNCHANGED <<links, tree, exec, scan>>

NextConcurrent ==
  RecordStartMeanwhile \/ Run \/ StopLoads \/ StopDumps \/ StopRemoves

SpecConcurrent == Init /\ [][NextConcurrent]_vars

(***************************************************************************)
(* Properties.  In a step of the state machine, last' is the call made by  *)
(* the step, the unprimed disk is the disk before the call and the primed  *)
(* disk the disk after it.                                                 *)
(***************************************************************************)
IsStop(call) == call.op = "in_toto_record_stop"
IsStart(call) == call.op = "in_toto_record_start"
IsRun(call) == call.op = "in_toto_run"

\* The preliminary files of a step before the call.
Preliminary(step_name) == unfinished_fn_list(step_name, unfinished)

\* The key a record_stop call names: the private key or the gpg key id.
NamedKey(a) == IF a.signing_key # None THEN a.signing_key ELSE a.gpg_keyid

C1_Persisted ==
  \A fn \in removed : \E d \in Dirs : links[<<d, fn[1], fn[2]>>] # NoFile

C1_FailedStopKeeps ==
  (IsStop(last') /\ last'.result # "ok") => unfinished' = unfinished

\* C1: a preliminary file that a record_stop has removed has its final file
\* of the same step and key id on disk, in every state; and a record_stop
\* that fails, at whichever step, leaves every preliminary file in place.
C1_RemovedOnlyAfterPersisted ==
  []C1_Persisted /\ [][C1_FailedStopKeeps]_vars

C1_Witness ==
  /\ IsStop(last) /\ last.result = "ok"
  /\ removed # {}
  /\ \A fn \in removed : unfinished[fn] = NoFile

C2_Stop ==
  LET a == last'.args
      fn == <<a.step_name, KeyidPrefix(a.signing_key)>>
      final == <<Cwd, a.step_name, KeyidPrefix(a.signing_key)>>
  IN (/\ IsStop(last') /\ a.signing_key # None /\ a.mishap = "none"
      /\ unfinished[fn] # NoFile
      /\ unfinished[fn][1].signatures = <<a.signing_key>>)
     => /\ last'.result = "ok"
        /\ links'[final] # NoFile
        /\ links'[final][1].signed.products
             = [p \in {a.product_list[i] : i \in DOMAIN a.product_list}
                  |-> tree]
        /\ unfinished'[fn] = NoFile

\* C2: record_stop with a private key, on the preliminary file that
\* record_start left for the same step and key, succeeds when nothing fails
\* underneath: the final file of the step and key id then exists, its
\* products are the scan of the product list at that time ({} for an empty
\* list), and the preliminary file is gone.
C2_StartThenStop == [][C2_Stop]_vars

C2_Witness ==
  /\ IsStop(last) /\ last.result = "ok"
  /\ last.args.signing_key # None
  /\ last.args.product_list = <<>>
  /\ LET final == <<Cwd, last.args.step_name,
                    KeyidPrefix(last.args.signing_key)>>
     IN /\ links[final] # NoFile
        /\ links[final][1].signed.products = EmptyDict
        /\ links[final][1].signed.materials # EmptyDict
  /\ unfinished[<<last.args.step_name,
                  KeyidPrefix(last.args.signing_key)>>] = NoFile

\* record_stop is called with key K2 on a step whose one preliminary file
\* was signed with another key K.
C3_OtherKey ==
  LET a == last'.args
  IN /\ IsStop(last')
     /\ NamedKey(a) # None
     /\ \E fn \in Preliminary(a.step_name) :
          /\ Preliminary(a.step_name) = {fn}
          /\ Len(unfinished[fn][1].signatures) = 1
          /\ unfinished[fn][1].signatures[1] # NamedKey(a)

\* The file name of K2's own preliminary file is that of K's.
C3_SameFileName ==
  LET a == last'.args
  IN \E fn \in Preliminary(a.step_name) :
       fn[2] = KeyidPrefix(NamedKey(a))

\* C3 as claimed: such a call fails with SignatureVerificationError and
\* keeps the preliminary file, for a private key as for a gpg key id.
C3_Original ==
  [][C3_OtherKey =>
       /\ last'.result = "SignatureVerificationError"
       /\ unfinished' = unfinished]_vars

\* C3: such a call always fails and keeps the preliminary file. It fails
\* with SignatureVerificationError when K2 is a gpg key id of the keyring,
\* or a private key whose file name (step name + first 8 characters of the
\* key id) is that of K's file; with a private key of another file name the
\* call fails before the verification, because it finds no file to load.
C3_WrongKeyFails ==
  [][C3_OtherKey =>
       /\ last'.result # "ok"
       /\ unfinished' = unfinished
       /\ (last'.result = "SignatureVerificationError"
             <=> \/ last'.args.signing_key = None
                      /\ last'.args.gpg_keyid \in GpgKeys
                 \/ last'.args.signing_key # None /\ C3_SameFileName)]_vars

C3_Witness ==
  /\ IsStop(last) /\ last.result = "SignatureVerificationError"
  /\ last.args.gpg_keyid \in GpgKeys
  /\ \E fn \in Preliminary(last.args.step_name) :
       unfinished[fn][1].signatures[1] # last.args.gpg_keyid

C4_DefaultIdentity(a) ==
  a.signing_key = None /\ a.gpg_keyid = None /\ a.gpg_use_default

C4_Stop ==
  LET a == last'.args
      n == Cardinality(Preliminary(a.step_name))
  IN (IsStop(last') /\ C4_DefaultIdentity(a))
     => /\ n # 1 => /\ last'.result = "LinkNotFoundError"
                    /\ unfinished' = unfinished
                    /\ links' = links
        /\ n = 1 => last'.result # "LinkNotFoundError"

\* C4: record_stop with the default gpg identity needs exactly one
\* preliminary file of the step: with none, and with more than one, it
\* raises LinkNotFoundError and no file is created, changed or deleted; with
\* exactly one it does not raise LinkNotFoundError.
C4_ExactlyOneMatch == [][C4_Stop]_vars

C4_Witness ==
  /\ IsStop(last) /\ last.result = "LinkNotFoundError"
  /\ C4_DefaultIdentity(last.args)
  /\ Cardinality(Preliminary(last.args.step_name)) > 1

\* record_stop is called with a private key or a gpg key id while the
\* preliminary file named by the step and that key id exists.
C5_OwnFileExists ==
  LET a == last'.args
  IN /\ IsStop(last')
     /\ NamedKey(a) # None
     /\ <<a.step_name, KeyidPrefix(NamedKey(a))>>
          \in Preliminary(a.step_name)

\* C5 as claimed: with a private key or a named gpg key id, the lookup does
\* not fail, whatever other preliminary files the step has.
C5_Original ==
  [][C5_OwnFileExists => last'.result # "LinkNotFoundError"]_vars

C5_Stop ==
  LET a == last'.args
  IN /\ (C5_OwnFileExists /\ a.signing_key # None)
          => /\ last'.trace[1] = "load"
             /\ Len(last'.trace) > 1
        \* a gpg key id is looked up as the default identity is
     /\ (IsStop(last') /\ a.signing_key = None /\ a.gpg_keyid # None)
          => (last'.result = "LinkNotFoundError"
                <=> Cardinality(Preliminary(a.step_name)) # 1)

\* C5: with a private key, record_stop loads the preliminary file named by
\* the step and the key's id without a search, so other preliminary files of
\* the step do not make the lookup fail. With a gpg key id and no private
\* key it searches as for the default identity, and fails with
\* LinkNotFoundError unless the step has exactly one preliminary file.
C5_LookupByCredential == [][C5_Stop]_vars

C5_Witness ==
  /\ IsStop(last) /\ last.result = "ok"
  /\ last.args.signing_key # None
  /\ Preliminary(last.args.step_name) # {}

\* C6 as claimed: record_stop raises LinkNotFoundError when the step has no
\* preliminary file, with each kind of credential.
C6_Original ==
  [][(IsStop(last') /\ Preliminary(last'.args.step_name) = {})
       => last'.result = "LinkNotFoundError"]_vars

C7_Call ==
  (/\ IsStart(last') \/ IsStop(last')
   /\ last'.args.signing_key = None
   /\ last'.args.gpg_keyid = None
   /\ ~last'.args.gpg_use_default)
  => /\ last'.result = "ValueError"
     /\ last'.trace = <<>>
     /\ unfinished' = unfinished
     /\ links' = links

\* C7: record_start and record_stop without any credential raise ValueError
\* before anything else is done: nothing is scanned, searched, loaded,
\* signed, written or removed, also when another argument is malformed.
C7_NoCredential == [][C7_Call]_vars

C7_Witness ==
  /\ IsStop(last) /\ last.result = "ValueError"
  /\ last.args.mishap = "bad_base_path"
  /\ Preliminary(last.args.step_name) # {}

C8_Run ==
  LET a == last'.args
      dir == IF a.metadata_directory # None THEN a.metadata_directory
             ELSE Cwd
  IN IsRun(last') =>
       /\ unfinished' = unfinished
       /\ (a.signing_key = None /\ a.gpg_keyid = None /\ ~a.gpg_use_default)
            => /\ links' = links
               /\ last'.result = "ok" => /\ last'.ret # <<>>
                                         /\ last'.ret[1].signatures = <<>>
       /\ (a.signing_key # None \/ a.gpg_keyid # None \/ a.gpg_use_default)
            => /\ last'.result # "ok" => links' = links
               /\ last'.result = "ok"
                    => /\ last'.ret # <<>>
                       /\ Len(last'.ret[1].signatures) = 1
                       /\ links' =
                            [links EXCEPT
                               ![<<dir, a.name,
                                   KeyidPrefix(last'.ret[1].signatures[1])>>]
                                 = last'.ret]

\* C8: in_toto_run without a credential writes no file and returns metadata
\* with no signature; with a credential, a successful in_toto_run returns
\* metadata with exactly one signature and writes just that, to the file
\* named by the step and the signature's key id, in metadata_directory when
\* one is passed.
C8_SignedIffCredential == [][C8_Run]_vars

C8_Witness ==
  /\ IsRun(last) /\ last.result = "ok"
  /\ last.args.metadata_directory # None
  /\ last.args.gpg_use_default /\ last.args.signing_key = None
  /\ last.args.gpg_keyid = None
  /\ links[<<last.args.metadata_directory, last.args.name,
             KeyidPrefix(DefaultGpgKey)>>] = last.ret

C9_Call ==
  LET a == last'.args
      given == (IF a.signing_key # None THEN 1 ELSE 0)
               + (IF a.gpg_keyid # None THEN 1 ELSE 0)
               + (IF a.gpg_use_default THEN 1 ELSE 0)
      first == IF a.signing_key # None THEN <<"SSlibSigner", a.signing_key>>
               ELSE IF a.gpg_keyid # None THEN <<"GPGSigner", a.gpg_keyid>>
               ELSE <<"GPGSigner", None>>
  IN (last'.op # "none" /\ given > 1)
     => /\ last'.signers \in {<<>>, <<first>>}
        /\ last'.result = "ok" => last'.signers = <<first>>

\* C9: a call that passes more than one credential invokes at most one
\* signer, and exactly one when it succeeds: the one of the private key if
\* one is passed, else the one of the gpg key id.
C9_Precedence == [][C9_Call]_vars

C9_Witness ==
  /\ IsStop(last) /\ last.result = "ok"
  /\ last.args.signing_key = None
  /\ last.args.gpg_keyid # None /\ last.args.gpg_use_default
  /\ last.signers = <<<<"GPGSigner", last.args.gpg_keyid>>>>

\* C10 as claimed: in_toto_run raises every format error of its arguments
\* before it records the materials.
C10_Original ==
  [][(IsRun(last') /\ last'.result = "FormatError")
       => last'.trace = <<>>]_vars

(***************************************************************************)
(* Properties of the execution.                                            *)
(***************************************************************************)
ExecFinished == exec.pc = "finished"

\* A step of the parent in the duplication loop: not one of the child or
\* of the clock.
ParentPolls ==
  /\ exec.pc = "poll"
  /\ exec'.now = exec.now
  /\ exec'.child_out = exec.child_out
  /\ exec'.child_err = exec.child_err
  /\ exec'.child # "exited"

\* The run time of the command has exceeded the timeout, and nothing else
\* has failed.
C11_Overrun == ExecFinished /\ exec.fault = "none" /\ exec.overran

C11_NoFileWritten ==
  (exec.pc = "finished" /\ exec.result # "ok" /\ calls' = calls + 1)
  => /\ IsRun(last') /\ last'.result = exec.result
     /\ links' = links
     /\ unfinished' = unfinished

\* C11 as claimed: every execution of a command whose run time exceeds the
\* timeout raises TimeoutExpired, with and without the duplication of the
\* streams, and the in_toto_run call then writes no link file.
C11_Original ==
  /\ [](C11_Overrun => exec.result = "TimeoutExpired")
  /\ [][C11_NoFileWritten]_vars

C11_Detected ==
  (ExecFinished /\ exec.fault = "none")
  => /\ exec.result = "TimeoutExpired" <=> exec.killed
     /\ exec.killed => exec.overran
     /\ (exec.overran /\ ~exec.args.record_streams)
          => exec.result = "TimeoutExpired"

C11_LatePoll ==
  (ParentPolls /\ exec.child = "running"
   /\ exec.now > LINK_CMD_EXEC_TIMEOUT)
  => /\ exec'.killed
     /\ exec'.pending = "TimeoutExpired"

\* C11: a command that still runs when the parent looks at it after the
\* timeout (at a turn of the duplication loop, or at the deadline of
\* subprocess.run) is killed and, nothing else failing, the execution raises
\* TimeoutExpired; it raises TimeoutExpired in no other case; and an
\* in_toto_run call whose execution raises writes no final and no
\* preliminary link file.  With the duplication of the streams a command
\* whose run time exceeds the timeout may exit before the next turn of the
\* loop, and the execution then returns.
C11_TimeoutAtPoll ==
  /\ []C11_Detected
  /\ [][C11_LatePoll]_vars
  /\ [][C11_NoFileWritten]_vars

C11_Witness ==
  /\ IsRun(last) /\ last.result = "TimeoutExpired"
  /\ last.args.record_streams
  /\ last.trace = <<"record_materials", "execute_link">>
  /\ \A fn \in LinkNames : links[fn] = NoFile
  /\ \A fn \in UnfinishedNames : unfinished[fn] = NoFile

\* C12 as claimed: an execution with the duplication of the streams whose
\* child exits before the timeout returns, as stdout and as stderr, all that
\* the child wrote to the stream, however much it wrote and whenever it
\* wrote it.
C12_Original ==
  (/\ ExecFinished /\ exec.args.record_streams
   /\ exec.result = "ok" /\ ~exec.overran)
  => /\ exec.ret[1] = exec.child_out
     /\ exec.ret[2] = exec.child_err

\* C13 as claimed: however an execution with the duplication of the streams
\* ends (return, timeout, command that cannot be launched, any other
\* failure, the creation or the removal of a temporary file included), no
\* temporary file is left on disk.
C13_Original ==
  (ExecFinished /\ exec.args.record_streams) => exec.tmp = {}

\* C14: an execution in which nothing fails and whose child exits by itself
\* returns, whatever the exit code: the "return-value" of the by-products is
\* the child's exit code, zero or not; and without the duplication of the
\* streams stdout and stderr are empty, whatever the child wrote.
C14_ExitCodeReturned ==
  /\ (ExecFinished /\ exec.fault = "none" /\ ~exec.killed)
       => /\ exec.result = "ok"
          /\ exec.ret[3] = exec.rc
          /\ exec.rc \in ExitCodes
  /\ (ExecFinished /\ exec.result = "ok" /\ ~exec.args.record_streams)
       => /\ exec.ret[1] = <<>>
          /\ exec.ret[2] = <<>>

C14_Witness ==
  /\ ExecFinished /\ exec.result = "ok"
  /\ ~exec.args.record_streams
  /\ exec.rc = 1
  /\ exec.child_out # <<>>
  /\ exec.ret = << <<>>, <<>>, 1 >>

\* C15: in an execution with the duplication of the streams, the timeout
\* error is on its way, or has been raised, only with the child killed and
\* waited for; and an execution that has killed its child returns nothing:
\* it ends with an exception and the output captured so far is not handed
\* to the caller.
C15_KilledBeforeRaise ==
  (exec.pc # "idle" /\ exec.args.record_streams)
  => /\ (exec.pending = "TimeoutExpired" \/ exec.result = "TimeoutExpired")
          => exec.killed /\ exec.child = "reaped"
     /\ exec.killed
          => /\ exec.child = "reaped"
             /\ exec.result # "ok"
             /\ exec.ret = <<>>

C15_Witness ==
  /\ ExecFinished /\ exec.args.record_streams
  /\ exec.result = "TimeoutExpired"
  /\ exec.child = "reaped" /\ exec.killed
  /\ exec.std.out # <<>>
  /\ exec.ret = <<>>

(***************************************************************************)
(* Properties of the recording of artifacts.                               *)
(***************************************************************************)
\* A call with exclude patterns has returned.
ScanExcluded ==
  /\ scan # NoScan
  /\ scan.result.error = "none"
  /\ scan.exclude_patterns # <<>>

\* The files the call has hashed.
Hashed == {scan.result.hashed[i] : i \in DOMAIN scan.result.hashed}

\* The path lies below the directory.
Below(path, dir) == dir = Dot \/ dir \in Ancestors(path)

C17_Overlap ==
  /\ scan # NoScan
  /\ \E i, j \in DOMAIN scan.lstrip_paths :
       /\ i # j
       /\ Len(scan.lstrip_paths[j]) <= Len(scan.lstrip_paths[i])
       /\ SubSeq(scan.lstrip_paths[i], 1, Len(scan.lstrip_paths[j]))
            = scan.lstrip_paths[j]

ScannedFiles ==
  LET r == record_artifacts_as_dict(scan.artifacts, scan.exclude_patterns,
                                    <<>>, scan.tree)
  IN {r.hashed[i] : i \in DOMAIN r.hashed}

\* The key of a file of the call of scan: its path with "/" for "\", less
\* the first prefix of lstrip_paths it starts with.
KeyOf(filepath) == Stripped(replace_backslash(filepath), scan.lstrip_paths)

\* Two files of the call of scan, not the same, have one key.
KeysCollide ==
  \E p, q \in ScannedFiles : p # q /\ KeyOf(p) = KeyOf(q)

\* C18 as claimed: a call that comes to two distinct files with one key
\* raises PrefixError, and returns no dict in which the one entry has taken
\* the place of the other.
C18_Original ==
  (scan # NoScan /\ KeysCollide) => scan.result.error = "PrefixError"

\* With lstrip_paths given, a call that comes to two distinct files with one
\* key raises PrefixError.
CollisionWithPrefixesRaises ==
  (scan # NoScan /\ scan.lstrip_paths # <<>> /\ KeysCollide)
  => scan.result.error = "PrefixError"

\* The variant of the metadata held by a file.
VariantOf(file) == file[1].type

\* The preliminary files that a step takes away.
TakenAway == {fn \in UnfinishedNames :
                unfinished[fn] # NoFile /\ unfinished'[fn] = NoFile}

\* A record_start that succeeds writes an Envelope when use_dsse is true and
\* a Metablock when it is false.
C19_StartVariant ==
  (IsStart(last') /\ calls' = calls + 1 /\ last'.result = "ok")
  => LET fn == UNFINISHED_FILENAME_FORMAT(
                 last'.args.step_name, SignatureKeyid(last'.signers[1]))
     IN /\ unfinished'[fn] # NoFile
        /\ VariantOf(unfinished'[fn])
             = IF last'.args.use_dsse THEN "Envelope" ELSE "Metablock"

\* A record_stop that succeeds removes one preliminary file and writes a
\* final file of the variant of that file.
C19_StopVariant ==
  (IsStop(last') /\ calls' = calls + 1 /\ last'.result = "ok")
  => /\ Cardinality(TakenAway) = 1
     /\ \A fn \in TakenAway :
          LET final == <<TargetDir(last'.args), fn[1], fn[2]>>
          IN /\ links'[final] # NoFile
             /\ VariantOf(links'[final]) = VariantOf(unfinished[fn])

\* C19: for both values of use_dsse at record_start, the final file that
\* record_stop writes is of the variant, Metablock or Envelope, of the
\* preliminary file it loaded.
C19_SameVariant == [][C19_StartVariant /\ C19_StopVariant]_vars

\* A record_stop has finished a link that record_start made with use_dsse.
C19_Witness ==
  /\ IsStop(last)
  /\ last.result = "ok"
  /\ \E fn \in LinkNames :
       /\ fn[2] = last.args.step_name
       /\ links[fn] # NoFile
       /\ VariantOf(links[fn]) = "Envelope"

\* Each step has at most one preliminary file.
C20_OnePerStep ==
  \A step_name \in Steps :
    Cardinality(unfinished_fn_list(step_name, unfinished)) <= 1

\* A record_start that succeeds leaves one preliminary file of its step,
\* which holds the metadata of this call; where the step had a file before,
\* it is the file of that name.
C20_Replaces ==
  (IsStart(last') /\ calls' = calls + 1 /\ last'.result = "ok")
  => LET before == unfinished_fn_list(last'.args.step_name, unfinished)
         after == unfinished_fn_list(last'.args.step_name, unfinished')
     IN /\ Cardinality(after) = 1
        /\ before # {} => after = before
        /\ \A fn \in after :
             VariantOf(unfinished'[fn])
               = IF last'.args.use_dsse THEN "Envelope" ELSE "Metablock"

RunEnds == calls' = calls + 1 /\ IsRun(last')

\* An in_toto_run that succeeds has made its calls in the order materials,
\* command, products, signature, dump; the child has exited and was waited
\* for; the materials are those of the tree before the command and the
\* products those of the tree after it.
C21_OrderWhenOk ==
  (RunEnds /\ last'.result = "ok")
  => /\ last'.trace = <<"record_materials", "execute_link",
                        "record_products", "create_signature", "dump">>
     /\ exec.child = "reaped"
     /\ tree' = CommandEffect(last'.args.link_cmd_args, tree)
     /\ tree' # tree
     /\ last'.ret[1].signed.materials
          = RecordArtifacts(last'.args.material_list, tree)
     /\ last'.ret[1].signed.products
          = RecordArtifacts(last'.args.product_list, tree')

\* An in_toto_run whose command raises records no products and signs and
\* writes nothing.
C21_OrderWhenRaised ==
  (RunEnds /\ last'.result # "ok")
  => /\ last'.trace = <<"record_materials", "execute_link">>
     /\ links' = links

\* C21: in_toto_run records the materials, then runs the command to its
\* exit, then records the products, then assembles, signs and writes the
\* link: the products are never recorded before the command has exited and
\* the materials never after it has started.
C21_Order == [][C21_OrderWhenOk /\ C21_OrderWhenRaised]_vars

\* An in_toto_run has ended well whose command changed the artifact: the
\* link holds the artifact of before as material and that of after as
\* product.
C21_Witness ==
  /\ IsRun(last) /\ last.result = "ok"
  /\ exec = ExecIdle
  /\ \E p \in DOMAIN last.ret[1].signed.materials :
       /\ p \in DOMAIN last.ret[1].signed.products
       /\ last.ret[1].signed.materials[p] # last.ret[1].signed.products[p]
       /\ last.ret[1].signed.products[p] = tree

\* The link a file holds.
PayloadOf(file) == file[1].signed

\* A record_start that succeeds writes a link with the name of the step,
\* the materials of the tree, the environment asked for, and no products,
\* command or byproducts.
C22_StartPayload ==
  (IsStart(last') /\ calls' = calls + 1 /\ last'.result = "ok")
  => LET fn == UNFINISHED_FILENAME_FORMAT(
                 last'.args.step_name, SignatureKeyid(last'.signers[1]))
     IN PayloadOf(unfinished'[fn])
          = Link(last'.args.step_name,
                 RecordArtifacts(last'.args.material_list, tree),
                 EmptyDict, <<>>, EmptyDict,
                 Environment(last'.args.record_environment))

\* A record_stop that succeeds writes the link of the preliminary file it
\* removes, with the products of the tree of now in it and nothing else
\* changed.
C22_StopPayload ==
  (IsStop(last') /\ calls' = calls + 1 /\ last'.result = "ok")
  => /\ Cardinality(TakenAway) = 1
     /\ \A fn \in TakenAway :
          LET final == <<TargetDir(last'.args), fn[1], fn[2]>>
              before == PayloadOf(unfinished[fn])
          IN /\ links'[final] # NoFile
             /\ PayloadOf(links'[final])
                  = [before EXCEPT
                       !.products =
                         RecordArtifacts(last'.args.product_list, tree)]
             /\ before.command = <<>>
             /\ before.byproducts = EmptyDict

\* C22: in_toto_record_stop changes only the products of the link it
\* loaded: name, materials, command, byproducts and environment of the final
\* file are those of the preliminary file that record_start wrote, command
\* and byproducts empty, whatever the tree holds when record_stop is called.
C22_OnlyProducts == [][C22_StartPayload /\ C22_StopPayload]_vars

\* A record_stop has finished a link whose preliminary file recorded the
\* environment, after a command changed the artifact: the material and the
\* product of the artifact differ.
C22_Witness ==
  /\ IsStop(last) /\ last.result = "ok"
  /\ \E fn \in LinkNames :
       /\ fn[2] = last.args.step_name
       /\ links[fn] # NoFile
       /\ PayloadOf(links[fn]).environment # EmptyDict
       /\ PayloadOf(links[fn]).command = <<>>
       /\ \E p \in DOMAIN PayloadOf(links[fn]).materials :
            /\ p \in DOMAIN PayloadOf(links[fn]).products
            /\ PayloadOf(links[fn]).materials[p]
                 # PayloadOf(links[fn]).products[p]

\* A record_stop that succeeds removes one preliminary file, which carries
\* one signature; the final file is named by the key id of that signature
\* and carries one signature, of that key id, made by the one signer of the
\* call; no other final file changes.
C23_SameKeyid ==
  (IsStop(last') /\ calls' = calls + 1 /\ last'.result = "ok")
  => /\ Cardinality(TakenAway) = 1
     /\ \A fn \in TakenAway :
          LET before == unfinished[fn][1].signatures
              final == FILENAME_FORMAT(TargetDir(last'.args),
                                       last'.args.step_name, before[1])
          IN /\ Len(before) = 1
             /\ links'[final] # NoFile
             /\ links'[final][1].signatures = <<before[1]>>
             /\ Len(last'.signers) = 1
             /\ SignatureKeyid(last'.signers[1]) = before[1]
             /\ \A other \in LinkNames \ {final} :
                  links'[other] = links[other]

\* With the default gpg key, the signer of a record_stop that succeeds is
\* gpg with the key id of the first signature of the preliminary file, the
\* key that was exported and verified with.
C23_DefaultFromFile ==
  (IsStop(last') /\ calls' = calls + 1 /\ last'.result = "ok"
     /\ last'.args.signing_key = None /\ last'.args.gpg_keyid = None)
  => \A fn \in TakenAway :
       /\ last'.signers = <<GPGSigner(unfinished[fn][1].signatures[1])>>
       /\ last'.trace = <<"glob", "load", "export_pubkey",
                          "verify_signature", "record_products",
                          "create_signature", "dump", "remove">>

\* C23: after a record_stop that succeeds, the key id of the signature of
\* the final file and the key id in its name are the key id of the signature
\* of the preliminary file, for a private key, a gpg key id and the default
\* gpg key; with the default gpg key, the key verified with and signed with
\* is the one the first signature of the preliminary file names.
C23_SameIdentity == [][C23_SameKeyid /\ C23_DefaultFromFile]_vars

\* A record_stop with the default gpg key has finished a link that
\* record_start signed with another gpg key: the final file carries the
\* signature of that key, not of the default key.
C23_Witness ==
  /\ IsStop(last) /\ last.result = "ok" /\ calls <= 3
  /\ last.args.gpg_use_default
  /\ last.signers = <<GPGSigner(Keyid(3, 1))>>
  /\ Keyid(3, 1) # DefaultGpgKey
  /\ \E fn \in LinkNames :
       /\ fn[2] = last.args.step_name
       /\ fn[3] = KeyidPrefix(Keyid(3, 1))
       /\ links[fn] # NoFile
       /\ links[fn][1].signatures = <<Keyid(3, 1)>>

\* The sequence s is the start of the sequence t.
IsPrefix(s, t) == Len(s) <= Len(t) /\ SubSeq(t, 1, Len(s)) = s

\* C24: during an execution with the duplication of the streams, what is
\* accumulated of a stream and what is echoed of it are each a start of what
\* the child has written to the stream, in the order written; after each
\* _duplicate_streams that completes, and as long as no exception is on its
\* way, the echoed text is the accumulated text; when a write of one fails,
\* the echoed text is the accumulated text, or that and the part of standard
\* output just read.
C24_InOrder ==
  /\ IsPrefix(exec.std.out, exec.child_out)
  /\ IsPrefix(exec.std.err, exec.child_err)
  /\ IsPrefix(exec.echo.out, exec.child_out)
  /\ IsPrefix(exec.echo.err, exec.child_err)
  /\ exec.pending = "none" => exec.echo = exec.std
  /\ exec.echo.err = exec.std.err
  /\ IsPrefix(exec.std.out, exec.echo.out)
  /\ Len(exec.echo.out) <= Len(exec.std.out) + DEFAULT_BUFFER_SIZE

\* The child runs and has written more to its standard output than one read
\* takes, and all of it is accumulated and echoed: in two parts at least.
C24_Witness ==
  /\ exec.pc = "poll" /\ exec.child = "running"
  /\ Len(exec.child_out) > DEFAULT_BUFFER_SIZE
  /\ exec.std.out = exec.child_out
  /\ exec.echo.out = exec.child_out

\* The parent is inside _subprocess_run_duplicate_streams.
Duplicating ==
  exec.pc \in {"mkstemp_out", "mkstemp_err", "open", "popen", "poll",
               "drain", "remove_out", "remove_err"}

\* A call with duplication in which nothing failed has returned the streams
\* of a child that exited, or raised TimeoutExpired for a child that ran
\* past the deadline and was killed.
C25_ReturnsOrExpires ==
  (ExecFinished /\ exec.args.record_streams /\ exec.fault = "none")
  => \/ exec.result = "ok" /\ exec.child = "reaped" /\ ~exec.killed
     \/ /\ exec.result = "TimeoutExpired"
        /\ exec.killed /\ exec.overran
        /\ exec.now > LINK_CMD_EXEC_TIMEOUT

\* C25: with the parent scheduled fairly and the clock going on, a call of
\* execute_link with duplication always comes to its end, whatever the child
\* does, a child that never exits and writes as long as it can included; if
\* nothing failed it has then returned the result of a child that exited or
\* raised TimeoutExpired for a child alive after the deadline.
C25_Terminates ==
  /\ []C25_ReturnsOrExpires
  /\ Duplicating ~> ExecFinished

\* A child that never exited and wrote all it could has been killed and the
\* call has raised TimeoutExpired.
C25_Witness ==
  /\ ExecFinished /\ exec.args.record_streams
  /\ exec.result = "TimeoutExpired" /\ exec.killed
  /\ Len(exec.child_out) + Len(exec.child_err) = MaxOutput
  /\ exec.fault = "none"

\* The files the call of scan would record were no path excluded.
RecordedUnfiltered ==
  record_artifacts_as_dict(scan.args.artifacts, <<>>, scan.args.lstrip_paths,
                           scan.disk[IF scan.left.base_path # None
                                     THEN scan.left.base_path[1]
                                     ELSE scan.cwd])

\* C26 as claimed: the exclude patterns and the base path of the settings
\* are used only when the caller passes none, so that a call with a list of
\* patterns that is passed, the empty list included, uses that list, and a
\* call with the empty list excludes nothing.
C26_Original ==
  (scan # NoScan /\ scan.args.artifacts # <<>>
     /\ scan.left.result.error \notin {"ValueError", "FormatError"})
  => /\ scan.args.exclude_patterns # None
          => scan.left.exclude_patterns = scan.args.exclude_patterns
     /\ scan.args.exclude_patterns = <<NoPatterns>>
          => scan.left.result = RecordedUnfiltered

\* C28 as claimed: the working directory after a call is the working
\* directory before it, however the call ends.
C28_Original ==
  scan # NoScan => scan.left.cwd = scan.cwd

\* C29 as claimed: a call with lstrip_paths that are accepted raises
\* PrefixError only when two distinct files it comes to have one key; a file
\* that the list of artifacts names twice is no error.
C29_Original ==
  (/\ scan # NoScan
   /\ scan.lstrip_paths # <<>>
   /\ ~C17_Overlap
   /\ scan.result.error = "PrefixError")
  => KeysCollide

\* The lists with the entries of a list in another order.
OrdersOf(list) ==
  {[i \in DOMAIN list |-> list[f[i]]] :
     f \in {g \in [DOMAIN list -> DOMAIN list] :
              \A i, j \in DOMAIN list : g[i] = g[j] => i = j}}

\* The entries of lstrip_paths that a path starts with.
Matching(path, lstrip_paths) ==
  {i \in DOMAIN lstrip_paths :
     Len(lstrip_paths[i]) <= Len(path)
     /\ SubSeq(path, 1, Len(lstrip_paths[i])) = lstrip_paths[i]}

\* C30: of lstrip_paths that the comparison of the prefixes accepts, at most
\* one starts any path, and the call returns the same dict, or raises the
\* same PrefixError, for lstrip_paths in every order; lstrip_paths that the
\* comparison refuses are refused in every order.
C30_OrderFree ==
  scan # NoScan
  => /\ ~C17_Overlap
          => \A path \in FileUniverse :
               Cardinality(Matching(replace_backslash(path),
                                    scan.lstrip_paths)) <= 1
     /\ \A other \in OrdersOf(scan.lstrip_paths) :
          LET r == record_artifacts_as_dict(scan.artifacts,
                                            scan.exclude_patterns, other,
                                            scan.tree)
          IN /\ r.dict = scan.result.dict
             /\ r.error = scan.result.error

\* A call with two prefixes that the comparison accepts, each of which
\* starts a file of the tree: the keys are stripped by the one and by the
\* other.
C30_Witness ==
  /\ scan # NoScan
  /\ scan.lstrip_paths = << <<"x">>, <<"sub", "/", "d", "/">> >>
  /\ scan.artifacts = <<Dot>>
  /\ {<<"x">>, <<"sub", "/", "d", "/", "x">>} \subseteq scan.tree
  /\ scan.result.error = "none"
  /\ <<>> \in DOMAIN scan.result.dict
  /\ <<"x">> \in DOMAIN scan.result.dict

\* The final file of the record_stop in progress.
FinalOfStopping ==
  FILENAME_FORMAT(TargetDir(stopping.args), stopping.args.step_name,
                  stopping.args.signing_key)

\* The step in which the record_stop in progress removes the preliminary
\* file.
Removing == stopping.pc = "dumped" /\ stopping'.pc = "done"

\* C27: in_toto_record_stop is not atomic.  When it removes the preliminary
\* file, the file of the name it loaded from is gone, whatever a
\* record_start has written there since the load, and the final file holds
\* the materials that were loaded: those of a preliminary file written in
\* between are in no final file of the call.
C27_RemovesWhatIsThere ==
  [][Removing
     => /\ unfinished'[stopping.unfinished_fn] = NoFile
        /\ stopping'.deleted = unfinished[stopping.unfinished_fn]
        /\ links'[FinalOfStopping] # NoFile
        /\ PayloadOf(links'[FinalOfStopping]).materials
             = stopping.link_metadata.signed.materials]_vars

\* The interleaving: a record_stop has removed a preliminary file that is
\* not the one it loaded, written by a record_start after the load, and the
\* materials of the removed file are in no final file.
C27_Witness ==
  /\ stopping.pc = "done"
  /\ stopping.deleted # NoFile
  /\ stopping.deleted # <<stopping.link_metadata>>
  /\ IsStop(last) /\ last.result = "ok"
  /\ unfinished[stopping.unfinished_fn] = NoFile
  /\ PayloadOf(stopping.deleted).materials
       # stopping.link_metadata.signed.materials
  /\ \A fn \in LinkNames :
       \/ links[fn] = NoFile
       \/ PayloadOf(links[fn]).materials
            # PayloadOf(stopping.deleted).materials

====
